---------------------------- MODULE Spec2Model ----------------------------
(***************************************************************************)
(* Multi-judge quality evaluation: JudgeManager (src/quality/              *)
(* judge_manager.py), ResponseParser (response_parser.py), ScoringRubric   *)
(* (scoring_rubric.py), JudgeComparison (judge_result.py) and              *)
(* MiniMaxScoreCalculator (minimax_scorer.py).                             *)
(*                                                                         *)
(* Texts are sequences of tokens.  A token is one character for every      *)
(* character the parsers look at (backslash, braces, quote, colon, comma,  *)
(* dot, digits, blank, newline, and the letters s S d D where a pattern    *)
(* names them), and an atomic word for every other run of letters.         *)
(* Numbers are fixed point, in thousandths (3.0 is 3000).                  *)
(***************************************************************************)
EXTENDS Integers, Sequences, FiniteSets, TLC

\* ------------------------------------------------------------------------
\* Python values and outcomes of calls
\* ------------------------------------------------------------------------

PyNone == [none |-> TRUE, s |-> <<>>]
PyStr(toks) == [none |-> FALSE, s |-> toks]

Raised(type, message) == [raised |-> TRUE, exc |-> type, msg |-> message]
Returned(value) == [raised |-> FALSE, val |-> value]

JNull == [t |-> "null"]
JBool(b) == [t |-> "bool", b |-> b]
JNum(n) == [t |-> "num", n |-> n]
JStr(toks) == [t |-> "str", s |-> toks]
JArr(elems) == [t |-> "arr", a |-> elems]
JObj(members) == [t |-> "obj", m |-> members]

EmptyMap == [k \in {} |-> JNull]

Min(S) == CHOOSE x \in S : \A y \in S : x <= y
Max(S) == CHOOSE x \in S : \A y \in S : x >= y

\* ------------------------------------------------------------------------
\* Characters
\* ------------------------------------------------------------------------

WS == {" ", "\n"}
Digits == {"0", "1", "2", "3", "4", "5", "6", "7", "8", "9"}
DigitVal == [d \in Digits |->
               CASE d = "0" -> 0 [] d = "1" -> 1 [] d = "2" -> 2 [] d = "3" -> 3
                 [] d = "4" -> 4 [] d = "5" -> 5 [] d = "6" -> 6 [] d = "7" -> 7
                 [] d = "8" -> 8 [] d = "9" -> 9]

\* str.lower / re.IGNORECASE on the alphabet of the model
Lower(tok) == CASE tok = "D" -> "d"
                [] tok = "S" -> "s"
                [] tok = "Accuracy" -> "accuracy"
                [] tok = "Clarity" -> "clarity"
                [] OTHER -> tok

RECURSIVE Concat(_)
Concat(toks) == IF toks = <<>> THEN "" ELSE Head(toks) \o Concat(Tail(toks))

RECURSIVE ScanDigits(_, _)
ScanDigits(s, i) ==
    IF i <= Len(s) /\ s[i] \in Digits THEN ScanDigits(s, i + 1) ELSE i

RECURSIVE DigitsValue(_)
DigitsValue(ds) ==
    IF ds = <<>> THEN 0
    ELSE 10 * DigitsValue(SubSeq(ds, 1, Len(ds) - 1)) + DigitVal[ds[Len(ds)]]

FracMilli(ds) ==
    LET d(k) == IF k <= Len(ds) THEN DigitVal[ds[k]] ELSE 0
    IN  100 * d(1) + 10 * d(2) + d(3)

\* ------------------------------------------------------------------------
\* json.loads (standard library), on token sequences
\* ------------------------------------------------------------------------

JFail == [ok |-> FALSE]
JOk(v, i) == [ok |-> TRUE, v |-> v, i |-> i]

RECURSIVE SkipWs(_, _)
SkipWs(s, i) == IF i <= Len(s) /\ s[i] \in WS THEN SkipWs(s, i + 1) ELSE i

JsonEscapes == {"\"", "\\", "/", "b", "f", "n", "r", "t"}

RECURSIVE ScanString(_, _, _)
ScanString(s, i, acc) ==
    IF i > Len(s) THEN JFail
    ELSE IF s[i] = "\"" THEN JOk(JStr(acc), i + 1)
    ELSE IF s[i] = "\n" THEN JFail
    ELSE IF s[i] = "\\" THEN
        IF i + 1 <= Len(s) /\ s[i + 1] \in JsonEscapes
        THEN ScanString(s, i + 2, Append(acc, s[i + 1]))
        ELSE JFail
    ELSE ScanString(s, i + 1, Append(acc, s[i]))

ParseNumber(s, i) ==
    LET NumValue(neg, j, k, hasFrac, e) ==
            JOk(JNum((IF neg THEN 0 - 1 ELSE 1)
                       * (DigitsValue(SubSeq(s, j, k - 1)) * 1000
                            + (IF hasFrac THEN FracMilli(SubSeq(s, k + 1, e - 1)) ELSE 0))),
                e)
        NumFrac(neg, j, k, hasFrac) ==
            NumValue(neg, j, k, hasFrac, IF hasFrac THEN ScanDigits(s, k + 1) ELSE k)
        NumInt(neg, j, k) ==
            NumFrac(neg, j, k, k + 1 <= Len(s) /\ s[k] = "." /\ s[k + 1] \in Digits)
        NumFrom(neg, j) ==
            IF ~(j <= Len(s) /\ s[j] \in Digits) THEN JFail
            ELSE NumInt(neg, j, IF s[j] = "0" THEN j + 1 ELSE ScanDigits(s, j))
        NumSign(neg) == NumFrom(neg, IF neg THEN i + 1 ELSE i)
    IN  NumSign(i <= Len(s) /\ s[i] = "-")

RECURSIVE ParseValue(_, _)
RECURSIVE ParseMembers(_, _, _)
RECURSIVE ParseElements(_, _, _)

ParseMembers(s, i, m) ==
    LET MemberNext(m2, n) ==
            IF n > Len(s) THEN JFail
            ELSE IF s[n] = "}" THEN JOk(JObj(m2), n + 1)
            ELSE IF s[n] = "," THEN ParseMembers(s, SkipWs(s, n + 1), m2)
            ELSE JFail
        MemberValue(key, v) ==
            IF ~v.ok THEN JFail
            ELSE MemberNext((Concat(key.v.s) :> v.v) @@ m, SkipWs(s, v.i))
        MemberColon(key, c) ==
            IF c > Len(s) \/ s[c] # ":" THEN JFail
            ELSE MemberValue(key, ParseValue(s, SkipWs(s, c + 1)))
        MemberKey(key) ==
            IF ~key.ok THEN JFail ELSE MemberColon(key, SkipWs(s, key.i))
    IN  IF i > Len(s) \/ s[i] # "\"" THEN JFail
        ELSE MemberKey(ScanString(s, i + 1, <<>>))

ParseElements(s, i, acc) ==
    LET ElementNext(v, n) ==
            IF n > Len(s) THEN JFail
            ELSE IF s[n] = "]" THEN JOk(JArr(Append(acc, v.v)), n + 1)
            ELSE IF s[n] = "," THEN ParseElements(s, SkipWs(s, n + 1), Append(acc, v.v))
            ELSE JFail
        Element(v) == IF ~v.ok THEN JFail ELSE ElementNext(v, SkipWs(s, v.i))
    IN  Element(ParseValue(s, i))

ParseValue(s, i) ==
    LET Container(j, close, empty, rest) ==
            IF j <= Len(s) /\ s[j] = close THEN JOk(empty, j + 1) ELSE rest
    IN  IF i > Len(s) THEN JFail
        ELSE IF s[i] = "{"
        THEN Container(SkipWs(s, i + 1), "}", JObj(EmptyMap),
                       ParseMembers(s, SkipWs(s, i + 1), EmptyMap))
        ELSE IF s[i] = "["
        THEN Container(SkipWs(s, i + 1), "]", JArr(<<>>),
                       ParseElements(s, SkipWs(s, i + 1), <<>>))
        ELSE IF s[i] = "\"" THEN ScanString(s, i + 1, <<>>)
        ELSE IF s[i] = "null" THEN JOk(JNull, i + 1)
        ELSE IF s[i] = "true" THEN JOk(JBool(TRUE), i + 1)
        ELSE IF s[i] = "false" THEN JOk(JBool(FALSE), i + 1)
        ELSE ParseNumber(s, i)

JsonLoads(s) ==
    LET Decoded(r) ==
            IF ~r.ok THEN Raised("JSONDecodeError", "Expecting value")
            ELSE IF SkipWs(s, r.i) # Len(s) + 1 THEN Raised("JSONDecodeError", "Extra data")
            ELSE Returned(r.v)
    IN  Decoded(ParseValue(s, SkipWs(s, 1)))

\* float(str): optional sign, digits, optional fraction
PyFloatOfStr(toks) ==
    LET FloatValue(neg, j, k, dot, e) ==
            IF (k > j \/ (dot /\ e > k + 1)) /\ SkipWs(toks, e) = Len(toks) + 1
            THEN Returned(JNum((IF neg THEN 0 - 1 ELSE 1)
                                 * (DigitsValue(SubSeq(toks, j, k - 1)) * 1000
                                      + (IF dot THEN FracMilli(SubSeq(toks, k + 1, e - 1))
                                         ELSE 0))))
            ELSE Raised("ValueError", "could not convert string to float")
        FloatFrac(neg, j, k, dot) ==
            FloatValue(neg, j, k, dot, IF dot THEN ScanDigits(toks, k + 1) ELSE k)
        FloatInt(neg, j, k) == FloatFrac(neg, j, k, k <= Len(toks) /\ toks[k] = ".")
        FloatFrom(neg, j) == FloatInt(neg, j, ScanDigits(toks, j))
        FloatSign(a, neg) ==
            FloatFrom(neg, IF neg \/ (a <= Len(toks) /\ toks[a] = "+") THEN a + 1 ELSE a)
        FloatStart(a) == FloatSign(a, a <= Len(toks) /\ toks[a] = "-")
    IN  FloatStart(SkipWs(toks, 1))

\* float(x) of a decoded JSON value
PyFloat(v) ==
    CASE v.t = "num" -> Returned(v)
      [] v.t = "bool" -> Returned(JNum(IF v.b THEN 1000 ELSE 0))
      [] v.t = "str" -> PyFloatOfStr(v.s)
      [] OTHER -> Raised("TypeError", "float() argument must be a string or a real number")

\* ------------------------------------------------------------------------
\* ScoringRubric (scoring_rubric.py); weights in hundredths
\* ------------------------------------------------------------------------

CATEGORY_RUBRICS ==
    [qa_simple |-> [criteria |-> <<"accuracy", "conciseness", "clarity">>,
                    weights |-> [accuracy |-> 40, conciseness |-> 30, clarity |-> 30]],
     reasoning_complex |-> [criteria |-> <<"reasoning_quality", "completeness", "clarity">>,
                    weights |-> [reasoning_quality |-> 40, completeness |-> 30, clarity |-> 30]],
     code_generation |-> [criteria |-> <<"code_correctness", "code_style", "efficiency", "documentation">>,
                    weights |-> [code_correctness |-> 50, code_style |-> 20, efficiency |-> 20, documentation |-> 10]],
     generation_long |-> [criteria |-> <<"structure", "content_quality", "creativity", "clarity">>,
                    weights |-> [structure |-> 25, content_quality |-> 35, creativity |-> 20, clarity |-> 20]],
     summarization |-> [criteria |-> <<"completeness", "conciseness", "accuracy">>,
                    weights |-> [completeness |-> 40, conciseness |-> 30, accuracy |-> 30]],
     translation |-> [criteria |-> <<"accuracy", "fluency", "cultural_appropriateness">>,
                    weights |-> [accuracy |-> 50, fluency |-> 30, cultural_appropriateness |-> 20]],
     math_reasoning |-> [criteria |-> <<"accuracy", "reasoning_quality", "clarity">>,
                    weights |-> [accuracy |-> 50, reasoning_quality |-> 30, clarity |-> 20]],
     creative_writing |-> [criteria |-> <<"creativity", "coherence", "emotional_impact", "originality">>,
                    weights |-> [creativity |-> 30, coherence |-> 30, emotional_impact |-> 20, originality |-> 20]],
     factual_accuracy |-> [criteria |-> <<"accuracy", "completeness", "citation_quality">>,
                    weights |-> [accuracy |-> 50, completeness |-> 30, citation_quality |-> 20]],
     multi_turn |-> [criteria |-> <<"context_retention", "relevance", "coherence">>,
                    weights |-> [context_retention |-> 40, relevance |-> 30, coherence |-> 30]]]

DefaultRubric == [criteria |-> <<"relevance", "accuracy", "clarity">>,
                  weights |-> [relevance |-> 40, accuracy |-> 30, clarity |-> 30]]

get_rubric(category) ==
    IF category \in DOMAIN CATEGORY_RUBRICS THEN CATEGORY_RUBRICS[category]
    ELSE DefaultRubric

\* round(x, 2) of a value given in units of 1e-5, result in thousandths
Round2(x) ==
    LET q == x \div 1000
        r == x % 1000
        up == r > 500 \/ (r = 500 /\ q % 2 = 1)
    IN  10 * (IF up THEN q + 1 ELSE q)

RECURSIVE SumOver(_, _)
SumOver(f, S) ==
    IF S = {} THEN 0
    ELSE LET x == CHOOSE y \in S : TRUE IN f[x] + SumOver(f, S \ {x})

\* bool * float is a number, str / None / list / dict * float raise TypeError
IsNumeric(v) == v.t \in {"num", "bool"}
NumOf(v) == IF v.t = "num" THEN v.n ELSE IF v.b THEN 1000 ELSE 0

calculate_overall_score_with_midpoint(category, scores) ==
    LET weights == get_rubric(category).weights
        used == DOMAIN weights \cap DOMAIN scores
        filled == [c \in DOMAIN weights |->
                     IF c \in used THEN NumOf(scores[c]) ELSE 3000]
    IN  IF \E c \in used : ~IsNumeric(scores[c])
        THEN Raised("TypeError", "unsupported operand type(s) for *")
        ELSE Returned(Round2(SumOver([c \in DOMAIN weights |-> filled[c] * weights[c]],
                                     DOMAIN weights)))

calculate_overall_score(category, scores) ==
    LET weights == get_rubric(category).weights
        used == DOMAIN weights \cap DOMAIN scores
    IN  IF \E c \in used : ~IsNumeric(scores[c])
        THEN Raised("TypeError", "unsupported operand type(s) for *")
        ELSE Returned(Round2(SumOver([c \in used |-> NumOf(scores[c]) * weights[c]], used)))

\* ------------------------------------------------------------------------
\* ResponseParser (response_parser.py)
\* ------------------------------------------------------------------------

DefaultScore == 3000
ClampLow == 1000
ClampHigh == 5000
ReasoningLimit == 500

\* re.search(r'\\{[\\s\\S]*\\}', response), line 52: in the raw string every
\* doubled backslash is a literal backslash, so the pattern is a backslash,
\* "{", a greedy run of the characters backslash / s / S, a backslash, "}"
JsonRunClass == {"\\", "s", "S"}

JsonMatchEnds(s, i) ==
    IF i + 1 <= Len(s) /\ s[i] = "\\" /\ s[i + 1] = "{"
    THEN {k \in (i + 2)..(Len(s) - 1) :
            /\ \A m \in (i + 2)..(k - 1) : s[m] \in JsonRunClass
            /\ s[k] = "\\"
            /\ s[k + 1] = "}"}
    ELSE {}

SearchJsonObject(s) ==
    LET JsonGroup(i) == SubSeq(s, i, Max(JsonMatchEnds(s, i)) + 1)
        JsonFirst(starts) ==
            IF starts = {} THEN [found |-> FALSE, group |-> <<>>]
            ELSE [found |-> TRUE, group |-> JsonGroup(Min(starts))]
    IN  JsonFirst({i \in 1..Len(s) : JsonMatchEnds(s, i) # {}})

\* re.search(rf'{criterion}.*?(\\d+(?:\\.\\d+)?)', text, re.IGNORECASE),
\* lines 201-202: the criterion, a lazy run without newline, then the group:
\* a backslash and one or more letters d, optionally followed by a
\* backslash, any character, a backslash and one or more letters d
IsD(s, i) == i <= Len(s) /\ Lower(s[i]) = "d"

RECURSIVE ScanD(_, _)
ScanD(s, i) == IF IsD(s, i) THEN ScanD(s, i + 1) ELSE i

CriterionGroupStarts(s, i, criterion) ==
    IF Lower(s[i]) = Lower(criterion)
    THEN {p \in (i + 1)..(Len(s) - 1) :
            /\ \A m \in (i + 1)..(p - 1) : s[m] # "\n"
            /\ s[p] = "\\"
            /\ IsD(s, p + 1)}
    ELSE {}

SearchCriterionScore(s, criterion) ==
    LET GroupEnd(q) ==
            IF /\ q + 3 <= Len(s)
               /\ s[q] = "\\"
               /\ s[q + 1] # "\n"
               /\ s[q + 2] = "\\"
               /\ IsD(s, q + 3)
            THEN ScanD(s, q + 3)
            ELSE q
        ScoreGroup(p) == SubSeq(s, p, GroupEnd(ScanD(s, p + 1)) - 1)
        \* groups[i]: where the group can start for a match that starts at i
        CriterionFirst(groups) ==
            IF \A i \in DOMAIN groups : groups[i] = {}
            THEN [found |-> FALSE, group |-> <<>>]
            ELSE [found |-> TRUE,
                  group |-> ScoreGroup(Min(groups[Min({i \in DOMAIN groups :
                                                         groups[i] # {}})]))]
    IN  CriterionFirst([i \in 1..Len(s) |-> CriterionGroupStarts(s, i, criterion)])

Clamp(n) == IF n < ClampLow THEN ClampLow ELSE IF n > ClampHigh THEN ClampHigh ELSE n

\* the loop of lines 198-209 from criterion k on; stops at the first raise
RECURSIVE ExtractLoop(_, _, _, _)
ExtractLoop(text, criteria, k, scores) ==
    LET StoreScore(n) ==
            ExtractLoop(text, criteria, k + 1, (criteria[k] :> JNum(n)) @@ scores)
        Converted(score) ==
            IF score.raised THEN score ELSE StoreScore(Clamp(score.val.n))
        Searched(match) ==
            IF match.found THEN Converted(PyFloatOfStr(match.group))
            ELSE StoreScore(DefaultScore)
    IN  IF k > Len(criteria) THEN Returned(scores)
        ELSE IF text.none
        THEN Raised("TypeError", "expected string or bytes-like object, got 'NoneType'")
        ELSE Searched(SearchCriterionScore(text.s, criteria[k]))

\* a fallback that returns the criteria the text mentions only
_extract_scores_from_text_mentioned_only(text, criteria) ==
    LET Mentioned(c) == \E i \in 1..Len(text.s) : Lower(text.s[i]) = Lower(c)
        Kept(scores) == [c \in {d \in DOMAIN scores : Mentioned(d)} |-> scores[c]]
        MeanOf(nums) == SumOver(nums, DOMAIN nums) \div Cardinality(DOMAIN nums)
        TextResult(scores) ==
            Returned([scores |-> scores,
                      strengths |-> <<>>,
                      weaknesses |-> <<>>,
                      reasoning |-> IF Len(text.s) > ReasoningLimit
                                    THEN SubSeq(text.s, 1, ReasoningLimit)
                                    ELSE text.s,
                      overall_score |->
                          IF DOMAIN scores # {}
                          THEN JNum(MeanOf([c \in DOMAIN scores |-> scores[c].n]))
                          ELSE JNum(DefaultScore)])
        AfterLoop(loop) ==
            IF loop.raised THEN loop
            ELSE IF text.none
            THEN Raised("TypeError", "object of type 'NoneType' has no len()")
            ELSE TextResult(Kept(loop.val))
    IN  AfterLoop(ExtractLoop(text, criteria, 1, EmptyMap))

_extract_scores_from_text(text, criteria) ==
    LET MeanOf(nums) == SumOver(nums, DOMAIN nums) \div Cardinality(DOMAIN nums)
        TextResult(scores) ==
            Returned([scores |-> scores,
                      strengths |-> <<>>,
                      weaknesses |-> <<>>,
                      reasoning |-> IF Len(text.s) > ReasoningLimit
                                    THEN SubSeq(text.s, 1, ReasoningLimit)
                                    ELSE text.s,
                      overall_score |->
                          IF DOMAIN scores # {}
                          THEN JNum(MeanOf([c \in DOMAIN scores |-> scores[c].n]))
                          ELSE JNum(DefaultScore)])
        AfterLoop(loop) ==
            IF loop.raised THEN loop
            ELSE IF text.none
            THEN Raised("TypeError", "object of type 'NoneType' has no len()")
            ELSE TextResult(loop.val)
    IN  AfterLoop(ExtractLoop(text, criteria, 1, EmptyMap))

\* (key in value) for a decoded JSON value
PyIn(key, v) ==
    CASE v.t = "obj" -> Returned(key \in DOMAIN v.m)
      [] v.t = "arr" -> Returned(\E n \in 1..Len(v.a) : v.a[n] = JStr(<<key>>))
      [] v.t = "str" -> Returned(\E n \in 1..Len(v.s) : v.s[n] = key)
      [] OTHER -> Raised("TypeError", "argument is not iterable")

\* the loop of lines 173-182 from criterion k on
RECURSIVE SimpleLoop(_, _, _, _)
SimpleLoop(scores_data, criteria, k, simple_scores) ==
    LET StoreSimple(v) ==
            SimpleLoop(scores_data, criteria, k + 1, (criteria[k] :> v) @@ simple_scores)
        Floated(f) == IF f.raised THEN f ELSE StoreSimple(f.val)
        ScoreEntry(entry) ==
            IF entry.t = "obj"
            THEN StoreSimple(IF "score" \in DOMAIN entry.m THEN entry.m["score"]
                             ELSE JNum(DefaultScore))
            ELSE Floated(PyFloat(entry))
        Contained(has) ==
            IF has.raised THEN has
            ELSE IF ~has.val THEN StoreSimple(JNum(DefaultScore))
            ELSE IF scores_data.t # "obj"
            THEN Raised("TypeError", "indices must be integers")
            ELSE ScoreEntry(scores_data.m[criteria[k]])
    IN  IF k > Len(criteria) THEN Returned(simple_scores)
        ELSE Contained(PyIn(criteria[k], scores_data))

_extract_simple_scores(scores_data, criteria) ==
    SimpleLoop(scores_data, criteria, 1, EmptyMap)

\* the try block of parse_standard, lines 51-67; from_text is the value of
\* self._extract_scores_from_text(response, criteria), the call of lines 54
\* and 61
ParseStandardTry(response, criteria, from_text) ==
    LET WithSimple(result, simple_scores) ==
            IF simple_scores.raised THEN simple_scores
            ELSE Returned(("scores" :> simple_scores.val) @@ result.val.m)
        WithScores(result, has) ==
            IF has.raised THEN has
            ELSE IF ~has.val THEN from_text
            ELSE IF result.val.t # "obj"
            THEN Raised("TypeError", "indices must be integers")
            ELSE WithSimple(result,
                            _extract_simple_scores(result.val.m["scores"], criteria))
        Loaded(result) ==
            IF result.raised THEN result
            ELSE WithScores(result, PyIn("scores", result.val))
        JsonSearched(json_match) ==
            IF ~json_match.found THEN from_text
            ELSE Loaded(JsonLoads(json_match.group))
    IN  IF response.none
        THEN Raised("TypeError", "expected string or bytes-like object, got 'NoneType'")
        ELSE JsonSearched(SearchJsonObject(response.s))

\* lines 51-71: the except branch makes the same call as the try block
parse_standard(response, criteria, category) ==
    LET Handled(try, from_text) == IF try.raised THEN from_text ELSE try
        Tried(from_text) ==
            Handled(ParseStandardTry(response, criteria, from_text), from_text)
    IN  Tried(_extract_scores_from_text(response, criteria))

\* the re.search of line 99 (the token "<fence>" is the run of three
\* backquotes): the fence and "json", a backslash and a run of s, the group (a backslash,
\* "{", a greedy run of backslash / s / S, a backslash, "}"), a backslash
\* and a run of s, the fence
RECURSIVE ScanS(_, _)
ScanS(s, i) == IF i <= Len(s) /\ s[i] = "s" THEN ScanS(s, i + 1) ELSE i

At(s, i, tok) == i >= 1 /\ i <= Len(s) /\ s[i] = tok

FenceGroupStart(s, i) == ScanS(s, i + 3)

FenceGroupEnds(s, i) ==
    LET a == FenceGroupStart(s, i) IN
      IF At(s, i, "<fence>") /\ At(s, i + 1, "json") /\ At(s, i + 2, "\\")
           /\ At(s, a, "\\") /\ At(s, a + 1, "{")
      THEN {k \in (a + 2)..Len(s) :
              /\ \A m \in (a + 2)..(k - 1) : s[m] \in JsonRunClass
              /\ At(s, k, "\\")
              /\ At(s, k + 1, "}")
              /\ At(s, k + 2, "\\")
              /\ At(s, ScanS(s, k + 3), "<fence>")}
      ELSE {}

SearchFencedJson(s) ==
    LET FencedGroup(i, ends) == SubSeq(s, FenceGroupStart(s, i), Max(ends[i]) + 1)
        \* ends[i]: where the group can end for a match that starts at i
        FencedFirst(ends) ==
            IF \A i \in DOMAIN ends : ends[i] = {}
            THEN [found |-> FALSE, group |-> <<>>]
            ELSE [found |-> TRUE,
                  group |-> FencedGroup(Min({i \in DOMAIN ends : ends[i] # {}}), ends)]
    IN  FencedFirst([i \in 1..Len(s) |-> FenceGroupEnds(s, i)])

\* the patterns of lines 118 and 124, f-strings that are not raw:
\* "model_x", a backslash and a run of s, ":", a backslash and a run of s,
\* "{", a greedy run without "}", "field", a backslash and a run of s, ":",
\* a backslash and a run of s, then the group [0-9.]+
NumberChars == Digits \cup {"."}

RECURSIVE ScanNumber(_, _)
ScanNumber(s, i) ==
    IF i <= Len(s) /\ s[i] \in NumberChars THEN ScanNumber(s, i + 1) ELSE i

\* after a quoted name at i..i+2: backslash, s*, ":", backslash, s*; the
\* index that follows, or 0
AfterQuotedKey(s, i, name) ==
    IF At(s, i, "\"") /\ At(s, i + 1, name) /\ At(s, i + 2, "\"") /\ At(s, i + 3, "\\")
    THEN LET a == ScanS(s, i + 4) IN
           IF At(s, a, ":") /\ At(s, a + 1, "\\") THEN ScanS(s, a + 2) ELSE 0
    ELSE 0

FieldGroupStarts(s, i, model, field) ==
    LET IsNumberStart(g) == g # 0 /\ g <= Len(s) /\ s[g] \in NumberChars
        \* after[q]: the index after the quoted field name at q, or 0
        FieldsFrom(b, after) ==
            IF b # 0 /\ At(s, b, "{")
            THEN {after[p] :
                    p \in {q \in (b + 1)..Len(s) :
                             /\ \A m \in (b + 1)..(q - 1) : s[m] # "}"
                             /\ IsNumberStart(after[q])}}
            ELSE {}
    IN  FieldsFrom(AfterQuotedKey(s, i, model),
                   [q \in 1..Len(s) |-> AfterQuotedKey(s, q, field)])

SearchField(s, model, field) ==
    LET NumberGroup(g) == SubSeq(s, g, ScanNumber(s, g) - 1)
        \* groups[i]: where the group can start for a match that starts at i
        FieldFirst(groups) ==
            IF \A i \in DOMAIN groups : groups[i] = {}
            THEN [found |-> FALSE, group |-> <<>>]
            ELSE [found |-> TRUE,
                  group |-> NumberGroup(Max(groups[Min({i \in DOMAIN groups :
                                                          groups[i] # {}})]))]
    IN  FieldFirst([i \in 1..Len(s) |-> FieldGroupStarts(s, i, model, field)])

required_fields == <<"accuracy_score", "completeness_score", "logic_score", "creativity_score">>
MinimaxFieldWeights == [accuracy_score |-> 30, completeness_score |-> 25,
                        logic_score |-> 25, creativity_score |-> 20]

\* "model_a" in result and "model_b" in result
HasBothModels(v) ==
    LET HasModels(has) ==
            IF has.model_a.raised THEN has.model_a
            ELSE IF ~has.model_a.val THEN Returned(FALSE)
            ELSE has.model_b
    IN  HasModels([model_a |-> PyIn("model_a", v), model_b |-> PyIn("model_b", v)])

ModelPair(v) ==
    IF v.t # "obj" THEN Raised("TypeError", "indices must be integers")
    ELSE Returned([model_a_score |-> v.m["model_a"], model_b_score |-> v.m["model_b"]])

\* lines 116-127 from field k on, for both models
RECURSIVE FieldLoop(_, _, _, _)
FieldLoop(s, k, a_scores, b_scores) ==
    LET StoreField(scores, r) ==
            IF r.found THEN (required_fields[k] :> r.score.val) @@ scores ELSE scores
        Failed(r) == r.found /\ r.score.raised
        \* r[model]: the match of the field for the model and float(match.group(1))
        FieldStep(r) ==
            IF Failed(r["model_a"]) THEN r["model_a"].score
            ELSE IF Failed(r["model_b"]) THEN r["model_b"].score
            ELSE FieldLoop(s, k + 1, StoreField(a_scores, r["model_a"]),
                                     StoreField(b_scores, r["model_b"]))
        FieldScore(match) == [found |-> match.found, score |-> PyFloatOfStr(match.group)]
    IN  IF k > Len(required_fields) THEN Returned([a |-> a_scores, b |-> b_scores])
        ELSE FieldStep([model \in {"model_a", "model_b"} |->
                          FieldScore(SearchField(s, model, required_fields[k]))])

WithOverall(scores) ==
    LET fields == DOMAIN MinimaxFieldWeights
        total == SumOver([f \in fields |->
                            (IF f \in DOMAIN scores THEN scores[f].n ELSE 0)
                              * MinimaxFieldWeights[f]], fields)
    IN  IF "overall_score" \in DOMAIN scores THEN scores
        ELSE ("overall_score" :> JNum(total \div 100)) @@ scores

\* lines 111-158
ParseMinimaxByFields(s) ==
    LET FromFields(found) ==
            IF found.raised THEN found
            ELSE IF Cardinality(DOMAIN found.val.a) >= 4
                      /\ Cardinality(DOMAIN found.val.b) >= 4
            THEN Returned([model_a_score |-> JObj(WithOverall(found.val.a)),
                           model_b_score |-> JObj(WithOverall(found.val.b))])
            ELSE Returned(PyNone)
    IN  FromFields(FieldLoop(s, 1, EmptyMap, EmptyMap))

\* json.loads(text) and the test of lines 90-95 / 102-107; otherwise is the
\* value of the statements that follow the if and the except
LoadModelPair(text, otherwise) ==
    LET PairOf(result, has) ==
            IF has.raised THEN has
            ELSE IF has.val THEN ModelPair(result.val)
            ELSE otherwise
        PairLoaded(result) ==
            IF result.raised THEN otherwise
            ELSE PairOf(result, HasBothModels(result.val))
    IN  PairLoaded(JsonLoads(text))

\* lines 98-109, then the rest
ParseMinimaxFenced(s) ==
    LET FencedSearched(json_match, by_fields) ==
            IF ~json_match.found THEN by_fields
            ELSE LoadModelPair(json_match.group, by_fields)
    IN  FencedSearched(SearchFencedJson(s), ParseMinimaxByFields(s))

\* None, a {model_a_score, model_b_score} dict, or an exception
parse_minimax(response_text) ==
    IF response_text.none
    THEN Raised("TypeError", "the JSON object must be str, bytes or bytearray, not NoneType")
    ELSE LoadModelPair(response_text.s, ParseMinimaxFenced(response_text.s))

\* ------------------------------------------------------------------------
\* JudgeFactory (judge_factory.py)
\* ------------------------------------------------------------------------

CLIENT_MAP == {"deepseek", "glm", "minimax"}

\* judge names in the order of the "judges" section of the configuration
JudgeOrder == <<"minimax_judge", "deepseek_judge", "glm_judge">>
JudgeNames == {JudgeOrder[n] : n \in 1..Len(JudgeOrder)}
TypeOfName == [minimax_judge |-> "minimax", deepseek_judge |-> "deepseek", glm_judge |-> "glm"]

\* what a declared judge entry can look like: usable, disabled, of an
\* unsupported type, or without its API key in the environment
EntryKinds == {"ok", "disabled", "badtype", "nokey"}

\* further shapes: no api_key_env in the entry, an empty base_url in the
\* entry, a client class whose constructor raises
FactoryEntryKinds == EntryKinds \cup {"nokeyref", "nobase", "ctor_raises"}

Entry(name, kind) ==
    [enabled |-> kind # "disabled",
     type |-> IF kind = "badtype" THEN "gpt" ELSE TypeOfName[name],
     model |-> name,
     api_key_env |-> IF kind = "nokeyref" THEN "" ELSE "API_KEY",
     has_key |-> kind \notin {"nokey", "nokeyref"},
     base_url |-> IF kind = "nobase" THEN "" ELSE "https",
     constructs |-> kind # "ctor_raises"]

create_single_without_key_check(judge_config) ==
    IF judge_config.type \notin CLIENT_MAP THEN PyNone
    ELSE IF judge_config.base_url = "" THEN PyNone
    ELSE IF ~judge_config.constructs THEN PyNone
    ELSE PyStr(<<judge_config.type>>)

\* None, or the client handle
create_single(judge_config) ==
    IF judge_config.type \notin CLIENT_MAP THEN PyNone
    ELSE IF ~judge_config.has_key THEN PyNone
    ELSE IF judge_config.base_url = "" THEN PyNone
    ELSE IF ~judge_config.constructs THEN PyNone
    ELSE PyStr(<<judge_config.type>>)

RECURSIVE CreateAllFrom(_, _, _)
CreateAllFrom(cfg, n, acc) ==
    IF n > Len(JudgeOrder) THEN acc
    ELSE LET judge_name == JudgeOrder[n] IN
      IF judge_name \notin DOMAIN cfg THEN CreateAllFrom(cfg, n + 1, acc)
      ELSE IF ~cfg[judge_name].enabled THEN CreateAllFrom(cfg, n + 1, acc)
      ELSE IF create_single(cfg[judge_name]).none THEN CreateAllFrom(cfg, n + 1, acc)
      ELSE CreateAllFrom(cfg, n + 1, Append(acc, judge_name))

\* the names of the created judges, in insertion order
create_all(cfg) == CreateAllFrom(cfg, 1, <<>>)

\* validate_config, lines 159-172; config is a dict, its "judges" value a
\* dict of entries or something else (PyNone)
validate_config(config) ==
    IF "judges" \notin DOMAIN config THEN FALSE
    ELSE IF config.judges = PyNone THEN FALSE
    ELSE Cardinality({n \in DOMAIN config.judges : config.judges[n].enabled}) > 0

\* ------------------------------------------------------------------------
\* JudgeEvaluation and JudgeManager._evaluate_with_judge
\* ------------------------------------------------------------------------

Get(d, key, default) == IF key \in DOMAIN d THEN d[key] ELSE default

JudgeEvaluation(judge_name, judge_model, category, model_name, scores, overall, strengths, weaknesses, reasoning, success, error_message) ==
    [judge_name |-> judge_name, judge_model |-> judge_model,
     test_category |-> category, model_evaluated |-> model_name,
     scores |-> scores, overall_score |-> overall,
     strengths |-> strengths, weaknesses |-> weaknesses, reasoning |-> reasoning,
     success |-> success, error_message |-> error_message]

FailedEvaluation(judge_name, judge_model, category, model_name, e) ==
    JudgeEvaluation(judge_name, judge_model, category, model_name, EmptyMap, 0,
                    <<>>, <<>>, <<>>, FALSE, PyStr(<<e.msg>>))

build_standard_evaluation(category, rubric, blind) ==
    [model_label |-> IF blind THEN "model A" ELSE "this model",
     criteria |-> rubric.criteria, category |-> category]

\* an evaluation that takes over the overall_score of the parsed reply
EvaluationOfParsedKeepingStatedOverall(judge_name, judge_model, category, model_name, evaluation_result) ==
    LET overall_score == calculate_overall_score(category, evaluation_result["scores"]) IN
      IF overall_score.raised
      THEN FailedEvaluation(judge_name, judge_model, category, model_name, overall_score)
      ELSE JudgeEvaluation(judge_name, judge_model, category, model_name,
                           evaluation_result["scores"],
                           Get(evaluation_result, "overall_score", JNum(0)).n,
                           Get(evaluation_result, "strengths", <<>>),
                           Get(evaluation_result, "weaknesses", <<>>),
                           Get(evaluation_result, "reasoning", <<>>),
                           TRUE, PyNone)

\* lines 187-209 and, for an exception of line 188, lines 211-226: the
\* evaluation made of the parsed reply
EvaluationOfParsed(judge_name, judge_model, category, model_name, evaluation_result) ==
    LET overall_score == calculate_overall_score(category, evaluation_result["scores"]) IN
      IF overall_score.raised
      THEN FailedEvaluation(judge_name, judge_model, category, model_name, overall_score)
      ELSE JudgeEvaluation(judge_name, judge_model, category, model_name,
                           evaluation_result["scores"], overall_score.val,
                           Get(evaluation_result, "strengths", <<>>),
                           Get(evaluation_result, "weaknesses", <<>>),
                           Get(evaluation_result, "reasoning", <<>>),
                           TRUE, PyNone)

\* chat is what client.chat does in this call: Raised(..) or Returned(text)
_evaluate_with_judge(judge_name, judge_model, category, model_name, chat) ==
    LET rubric == get_rubric(category) IN
      IF chat.raised
      THEN FailedEvaluation(judge_name, judge_model, category, model_name, chat)
      ELSE LET evaluation_result == parse_standard(chat.val, rubric.criteria, category) IN
        IF evaluation_result.raised
        THEN FailedEvaluation(judge_name, judge_model, category, model_name, evaluation_result)
        ELSE EvaluationOfParsed(judge_name, judge_model, category, model_name,
                                evaluation_result.val)

\* ------------------------------------------------------------------------
\* JudgeComparison.calculate_agreement_metrics (judge_result.py)
\* ------------------------------------------------------------------------

\* math.sqrt, truncated: the r with r*r <= x < (r+1)*(r+1), lo*lo <= x < hi*hi
RECURSIVE ISqrtBetween(_, _, _)
ISqrtBetween(x, lo, hi) ==
    IF hi - lo <= 1 THEN lo
    ELSE LET mid == (lo + hi) \div 2 IN
           IF mid * mid <= x THEN ISqrtBetween(x, mid, hi) ELSE ISqrtBetween(x, lo, mid)
ISqrt(x) == ISqrtBetween(x, 0, IF x < 46340 THEN x + 1 ELSE 46340)

\* statistics.variance of the values f[k], k in S (|S| >= 2), in units of
\* 1e-6, truncated
Variance(f, S) ==
    LET n == Cardinality(S)
        sum == SumOver(f, S)
        sumsq == SumOver([k \in S |-> f[k] * f[k]], S)
    IN  (n * sumsq - sum * sum) \div (n * (n - 1))

HighStd == 500
MediumStd == 1000

AgreementLevelWithInclusiveBounds(score_std) ==
    IF score_std <= HighStd THEN "high"
    ELSE IF score_std <= MediumStd THEN "medium"
    ELSE "low"

AgreementLevel(score_std) ==
    IF score_std < HighStd THEN "high"
    ELSE IF score_std < MediumStd THEN "medium"
    ELSE "low"

NewComparison(model_name, evaluations) ==
    [model_evaluated |-> model_name, evaluations |-> evaluations,
     score_variance |-> 0, score_std |-> 0, agreement_level |-> "",
     criteria_disagreements |-> EmptyMap]

\* the evaluations whose overall score enters the variance, line 113
ScoredEvaluations(evaluations) == DOMAIN evaluations

\* metrics that are computed for a single evaluation as well
calculate_agreement_metrics_of_any(c) ==
    IF Cardinality(DOMAIN c.evaluations) < 1 THEN c
    ELSE LET used == ScoredEvaluations(c.evaluations)
             overall_scores == [j \in used |-> c.evaluations[j].overall_score]
             variance == IF Cardinality(used) > 1 THEN Variance(overall_scores, used) ELSE 0
             std == ISqrt(variance)
         IN  [c EXCEPT !.score_variance = variance,
                       !.score_std = std,
                       !.agreement_level = AgreementLevel(std)]

calculate_agreement_metrics(c) ==
    IF Cardinality(DOMAIN c.evaluations) < 2 THEN c
    ELSE LET used == ScoredEvaluations(c.evaluations)
             overall_scores == [j \in used |-> c.evaluations[j].overall_score]
             variance == IF Cardinality(used) > 1 THEN Variance(overall_scores, used) ELSE 0
             std == ISqrt(variance)
             all_criteria == UNION {DOMAIN c.evaluations[j].scores : j \in DOMAIN c.evaluations}
             having(cr) == {j \in DOMAIN c.evaluations : cr \in DOMAIN c.evaluations[j].scores}
             value(cr, j) == NumOf(c.evaluations[j].scores[cr])
             disagreeing == {cr \in all_criteria : Cardinality(having(cr)) >= 2}
         IN  [c EXCEPT !.score_variance = variance,
                       !.score_std = std,
                       !.agreement_level = AgreementLevel(std),
                       !.criteria_disagreements =
                           [cr \in disagreeing |->
                               Max({value(cr, j) : j \in having(cr)})
                                 - Min({value(cr, j) : j \in having(cr)})]]

\* ------------------------------------------------------------------------
\* State
\* ------------------------------------------------------------------------

VARIABLES
    enabled,              \* JudgeManager.enabled
    judges_config,        \* JudgeManager.judges_config: name -> entry
    evaluation_strategy,  \* JudgeManager.evaluation_strategy
    judges,               \* JudgeManager.judges: the created judges, in dict order
    op,                   \* the public method in progress, or "idle"
    request,              \* arguments of the evaluate_single_output call in progress
    outcome,              \* what each judge's client.chat does in this call
    prompts,              \* evaluate_single_output: the prompt given to each judge's client.chat
    phase,                \* pending / dispatched / collecting / aggregated
    pendingSubmit,        \* judges not yet submitted (parallel) or called (sequential)
    worker,               \* per judge: idle / running / done
    future,               \* results of the finished pool tasks
    collected,            \* judges in the order their results were collected
    evaluations,          \* the evaluations dict being built and returned
    evals_a,              \* compare_outputs: the mapping returned for model_a
    comparisons,          \* compare_outputs: its return value
    parse_in,             \* arguments of a parse_standard call
    parse_out,            \* its outcome
    static_in,            \* the static method called on its own, and its arguments
    static_out,           \* its outcome
    results,              \* evaluate_minimax_standard: judge -> parsed result
    mm_return,            \* evaluate_minimax_standard: its return value
    collector_results,    \* MetricsCollector.results
    quality_stats         \* get_quality_statistics: its return value

managerVars == <<enabled, judges_config, evaluation_strategy, judges>>
callVars == <<request, outcome, prompts, phase, pendingSubmit, worker, future, collected, evaluations>>
compareVars == <<evals_a, comparisons>>
parseVars == <<parse_in, parse_out>>
staticVars == <<static_in, static_out>>
minimaxVars == <<results, mm_return>>
metricsVars == <<collector_results, quality_stats>>
vars == <<managerVars, op, callVars, compareVars, parseVars, staticVars, minimaxVars,
          metricsVars>>

RangeOf(seq) == {seq[n] : n \in 1..Len(seq)}
JudgeSet == RangeOf(judges)

\* ------------------------------------------------------------------------
\* Inputs
\* ------------------------------------------------------------------------

\* I think this is {"scores": {"accuracy": {"score": 4}}, "overall_score": 4.0}
EmbeddedReply ==
    <<"I", " ", "think", " ", "this", " ", "is", " ",
      "{", "\"", "scores", "\"", ":", " ",
      "{", "\"", "accuracy", "\"", ":", " ",
      "{", "\"", "score", "\"", ":", " ", "4", "}", "}", ",", " ",
      "\"", "overall_score", "\"", ":", " ", "4", ".", "0", "}">>

\* accuracy: \d
RegexReply == <<"accuracy", ":", " ", "\\", "d">>

ChatOutcomes ==
    {Raised("TimeoutError", "Request timed out."),
     Returned(PyNone),
     Returned(PyStr(EmbeddedReply)),
     Returned(PyStr(RegexReply))}

\* the outcomes drawn for the two calls of compare_outputs
CompareOutcomes ==
    {Raised("TimeoutError", "Request timed out."),
     Returned(PyStr(EmbeddedReply))}

Categories == {"qa_simple", "uncategorized"}
Strategies == {EmptyMap, [mode |-> "parallel"], [mode |-> "sequential"], [mode |-> "debug"]}
Configs == UNION {[D -> EntryKinds] : D \in SUBSET JudgeNames}

Mode == Get(evaluation_strategy, "mode", "parallel")

NoRequest == [model_name |-> "", category |-> ""]

\* line 337
get_enabled_judges == judges

\* line 341
is_enabled == enabled /\ Len(judges) > 0

\* ------------------------------------------------------------------------
\* JudgeManager.__init__
\* ------------------------------------------------------------------------

InitManager ==
    /\ enabled \in BOOLEAN
    /\ \E kinds \in Configs :
         judges_config = [n \in DOMAIN kinds |-> Entry(n, kinds[n])]
    /\ evaluation_strategy \in Strategies
    /\ judges = IF enabled THEN create_all(judges_config) ELSE <<>>

NoCall ==
    /\ request = NoRequest
    /\ outcome = EmptyMap
    /\ prompts = EmptyMap
    /\ phase = "none"
    /\ pendingSubmit = <<>>
    /\ worker = EmptyMap
    /\ future = EmptyMap
    /\ collected = <<>>
    /\ evaluations = EmptyMap

NoParse ==
    /\ parse_in = [response |-> PyNone, criteria |-> <<>>, category |-> ""]
    /\ parse_out = Returned(EmptyMap)

NoStatic ==
    /\ static_in = [method |-> ""]
    /\ static_out = Returned(EmptyMap)

NoMetrics ==
    /\ collector_results = <<>>
    /\ quality_stats = EmptyMap

Init ==
    /\ InitManager
    /\ op = "idle"
    /\ NoCall
    /\ evals_a = EmptyMap
    /\ comparisons = EmptyMap
    /\ NoParse
    /\ NoStatic
    /\ results = EmptyMap
    /\ mm_return = Returned(EmptyMap)
    /\ NoMetrics

\* ------------------------------------------------------------------------
\* evaluate_single_output
\* ------------------------------------------------------------------------

\* entry of evaluate_single_output: the request is pending
StartCall(model_name, category, outc) ==
    /\ request' = [model_name |-> model_name, category |-> category]
    /\ outcome' = outc
    /\ prompts' = EmptyMap
    /\ phase' = "pending"
    /\ pendingSubmit' = <<>>
    /\ worker' = [j \in JudgeSet |-> "idle"]
    /\ future' = EmptyMap
    /\ collected' = <<>>
    /\ evaluations' = EmptyMap

ClearCall ==
    /\ request' = NoRequest
    /\ outcome' = EmptyMap
    /\ prompts' = EmptyMap
    /\ phase' = "none"
    /\ pendingSubmit' = <<>>
    /\ worker' = EmptyMap
    /\ future' = EmptyMap
    /\ collected' = <<>>
    /\ evaluations' = EmptyMap

evaluate_single_output ==
    /\ op = "idle"
    /\ op' = "single"
    /\ \E category \in Categories, outc \in [JudgeSet -> ChatOutcomes] :
         StartCall("deepseek", category, outc)
    /\ UNCHANGED <<managerVars, compareVars, parseVars, staticVars, minimaxVars, metricsVars>>
\* a guard that looks at the enabled flag only
NoUsableJudgesDisabledOnly(en, js) == ~en

\* line 66
NoUsableJudges(en, js) == ~en \/ js = <<>>

\* lines 66-81: the early return, or the choice of the strategy; a pool of
\* zero workers cannot be built (ThreadPoolExecutor raises ValueError)
Dispatch ==
    /\ op \in {"single", "compare"}
    /\ phase = "pending"
    /\ IF NoUsableJudges(enabled, judges)
       THEN phase' = "aggregated" /\ pendingSubmit' = <<>>
       ELSE IF Mode = "parallel" /\ Len(judges) = 0
       THEN phase' = "raised" /\ pendingSubmit' = <<>>
       ELSE phase' = "dispatched" /\ pendingSubmit' = judges
    /\ UNCHANGED <<managerVars, op, request, outcome, prompts, worker, future, collected,
                   evaluations, compareVars, parseVars, staticVars, minimaxVars, metricsVars>>

\* lines 99-110: executor.submit of the next judge; the pool has one worker
\* per judge, so the task starts at once
Submit ==
    /\ op \in {"single", "compare"}
    /\ phase = "dispatched"
    /\ Mode = "parallel"
    /\ pendingSubmit # <<>>
    /\ worker' = [worker EXCEPT ![Head(pendingSubmit)] = "running"]
    /\ pendingSubmit' = Tail(pendingSubmit)
    /\ phase' = IF Tail(pendingSubmit) = <<>> THEN "collecting" ELSE "dispatched"
    /\ UNCHANGED <<managerVars, op, request, outcome, prompts, future, collected,
                   evaluations, compareVars, parseVars, staticVars, minimaxVars, metricsVars>>

\* _evaluate_with_judge for every judge, category, candidate and outcome of
\* the call, tabulated
ModelNames == {"deepseek", "model_a", "model_b"}
EvaluationTable ==
    [a \in JudgeNames \X Categories \X ModelNames \X ChatOutcomes |->
       _evaluate_with_judge(a[1], Entry(a[1], "ok").model, a[2], a[3], a[4])] @@ EmptyMap

\* the call of lines 101-109 and of lines 136-138 for judge j
EvaluationOf(j) ==
    EvaluationTable[<<j, request.category, request.model_name, outcome[j]>>]

\* lines 261-276
_build_evaluation_prompt(category, rubric, blind) ==
    build_standard_evaluation(category, rubric, blind)

\* lines 159-173: the prompt _evaluate_with_judge builds for judge j from
\* that judge's own configuration, inside the call for that judge
PromptOf(j) ==
    _build_evaluation_prompt(request.category, get_rubric(request.category),
                             Get(judges_config[j], "blind_evaluation", TRUE))

\* a pool task runs _evaluate_with_judge to its end
WorkerFinish(j) ==
    /\ op \in {"single", "compare"}
    /\ Mode = "parallel"
    /\ worker[j] = "running"
    /\ worker' = [worker EXCEPT ![j] = "done"]
    /\ future' = (j :> EvaluationOf(j)) @@ future
    /\ prompts' = (j :> PromptOf(j)) @@ prompts
    /\ UNCHANGED <<managerVars, op, request, outcome, phase, pendingSubmit,
                   collected, evaluations, compareVars, parseVars, staticVars, minimaxVars, metricsVars>>
\* the result stored under the judge at the position of completion
CollectResultByPosition(evals, position, judge_name, evaluation) ==
    (judges[position] :> evaluation) @@ evals

\* a collector that keeps the latest result only
CollectResultDroppingOthers(evals, position, judge_name, evaluation) ==
    (judge_name :> evaluation)

\* lines 114-118: the result of the position-th completed future, submitted
\* for judge_name, is stored under judge_name
CollectResult(evals, position, judge_name, evaluation) ==
    (judge_name :> evaluation) @@ evals
\* a collector that lets the exception of a failed call through
CollectReraising(j) ==
    /\ op \in {"single", "compare"}
    /\ phase = "collecting"
    /\ Mode = "parallel"
    /\ worker[j] = "done"
    /\ j \notin RangeOf(collected)
    /\ evaluations' = IF future[j].success
                      THEN CollectResult(evaluations, Len(collected) + 1, j, future[j])
                      ELSE evaluations
    /\ collected' = Append(collected, j)
    /\ phase' = IF future[j].success THEN phase ELSE "raised"
    /\ UNCHANGED <<managerVars, op, request, outcome, prompts, pendingSubmit,
                   worker, future, compareVars, parseVars, staticVars, minimaxVars, metricsVars>>

\* lines 113-120: as_completed hands over any finished future
Collect(j) ==
    /\ op \in {"single", "compare"}
    /\ phase = "collecting"
    /\ Mode = "parallel"
    /\ worker[j] = "done"
    /\ j \notin RangeOf(collected)
    /\ evaluations' = CollectResult(evaluations, Len(collected) + 1, j, future[j])
    /\ collected' = Append(collected, j)
    /\ UNCHANGED <<managerVars, op, request, outcome, prompts, phase, pendingSubmit,
                   worker, future, compareVars, parseVars, staticVars, minimaxVars, metricsVars>>

\* line 122, after the pool has shut down
ReturnParallel ==
    /\ op \in {"single", "compare"}
    /\ phase = "collecting"
    /\ Mode = "parallel"
    /\ Len(collected) = Len(judges)
    /\ \A j \in JudgeSet : worker[j] = "done"
    /\ phase' = "aggregated"
    /\ UNCHANGED <<managerVars, op, request, outcome, prompts, pendingSubmit, worker,
                   future, collected, evaluations, compareVars, parseVars, staticVars, minimaxVars, metricsVars>>

\* line 136: the next judge is called
SeqCall ==
    /\ op \in {"single", "compare"}
    /\ phase \in {"dispatched", "collecting"}
    /\ Mode # "parallel"
    /\ pendingSubmit # <<>>
    /\ \A j \in JudgeSet : worker[j] # "running"
    /\ worker' = [worker EXCEPT ![Head(pendingSubmit)] = "running"]
    /\ pendingSubmit' = Tail(pendingSubmit)
    /\ UNCHANGED <<managerVars, op, request, outcome, prompts, phase, future, collected,
                   evaluations, compareVars, parseVars, staticVars, minimaxVars, metricsVars>>
\* a loop that keeps the successful evaluations only
SeqStoreSuccessful(evals, judge_name, evaluation) ==
    IF evaluation.success THEN (judge_name :> evaluation) @@ evals ELSE evals

\* lines 139-140
SeqStore(evals, judge_name, evaluation) ==
    (judge_name :> evaluation) @@ evals
\* a loop that stops at the first failed judge
SeqFinishBreakOnFailure(j) ==
    /\ op \in {"single", "compare"}
    /\ Mode # "parallel"
    /\ worker[j] = "running"
    /\ worker' = [worker EXCEPT ![j] = "done"]
    /\ evaluations' = SeqStore(evaluations, j, EvaluationOf(j))
    /\ prompts' = (j :> PromptOf(j)) @@ prompts
    /\ collected' = Append(collected, j)
    /\ phase' = "collecting"
    /\ pendingSubmit' = IF EvaluationOf(j).success THEN pendingSubmit ELSE <<>>
    /\ UNCHANGED <<managerVars, op, request, outcome, future,
                   compareVars, parseVars, staticVars, minimaxVars, metricsVars>>

\* lines 136-140: the call returns and its result is stored
SeqFinish(j) ==
    /\ op \in {"single", "compare"}
    /\ Mode # "parallel"
    /\ worker[j] = "running"
    /\ worker' = [worker EXCEPT ![j] = "done"]
    /\ evaluations' = SeqStore(evaluations, j, EvaluationOf(j))
    /\ prompts' = (j :> PromptOf(j)) @@ prompts
    /\ collected' = Append(collected, j)
    /\ phase' = "collecting"
    /\ UNCHANGED <<managerVars, op, request, outcome, pendingSubmit, future,
                   compareVars, parseVars, staticVars, minimaxVars, metricsVars>>

\* line 142
ReturnSequential ==
    /\ op \in {"single", "compare"}
    /\ phase \in {"dispatched", "collecting"}
    /\ Mode # "parallel"
    /\ pendingSubmit = <<>>
    /\ \A j \in JudgeSet : worker[j] # "running"
    /\ phase' = "aggregated"
    /\ UNCHANGED <<managerVars, op, request, outcome, prompts, pendingSubmit, worker,
                   future, collected, evaluations, compareVars, parseVars, staticVars, minimaxVars, metricsVars>>

\* a manager that drops the judges whose evaluation failed when the call ends
SingleDoneDroppingFailedJudges ==
    /\ op = "single"
    /\ phase \in {"aggregated", "raised"}
    /\ op' = "idle"
    /\ ClearCall
    /\ judges' = SelectSeq(judges, LAMBDA j : j \in DOMAIN evaluations /\ evaluations[j].success)
    /\ UNCHANGED <<enabled, judges_config, evaluation_strategy,
                   compareVars, parseVars, staticVars, minimaxVars, metricsVars>>

\* the caller of evaluate_single_output has the mapping (or the exception)
SingleDone ==
    /\ op = "single"
    /\ phase \in {"aggregated", "raised"}
    /\ op' = "idle"
    /\ ClearCall
    /\ UNCHANGED <<managerVars, compareVars, parseVars, staticVars, minimaxVars, metricsVars>>

\* ------------------------------------------------------------------------
\* compare_outputs
\* ------------------------------------------------------------------------

\* lines 312-314
compare_outputs ==
    /\ op = "idle"
    /\ op' = "compare"
    /\ \E category \in Categories, outc \in [JudgeSet -> CompareOutcomes] :
         StartCall("model_a", category, outc)
    /\ evals_a' = EmptyMap
    /\ comparisons' = EmptyMap
    /\ UNCHANGED <<managerVars, parseVars, staticVars, minimaxVars, metricsVars>>

\* lines 317-319
CompareSecond ==
    /\ op = "compare"
    /\ request.model_name = "model_a"
    /\ phase = "aggregated"
    /\ evals_a' = evaluations
    /\ \E outc \in [JudgeSet -> CompareOutcomes] :
         StartCall("model_b", request.category, outc)
    /\ UNCHANGED <<managerVars, op, comparisons, parseVars, staticVars, minimaxVars, metricsVars>>

\* lines 322-331
BuildComparisons(ea, eb) ==
    LET evals == [model_a |-> ea, model_b |-> eb]
        present == {m \in {"model_a", "model_b"} : DOMAIN evals[m] # {}}
    IN  [m \in present |-> calculate_agreement_metrics(NewComparison(m, evals[m]))]

CompareFinish ==
    /\ op = "compare"
    /\ request.model_name = "model_b"
    /\ phase = "aggregated"
    /\ comparisons' = BuildComparisons(evals_a, evaluations)
    /\ op' = "compared"
    /\ ClearCall
    /\ UNCHANGED <<managerVars, evals_a, parseVars, staticVars, minimaxVars, metricsVars>>

\* the caller of compare_outputs has the comparisons (or the exception)
CompareDone ==
    /\ IF op = "compare" THEN phase = "raised" ELSE op = "compared"
    /\ op' = "idle"
    /\ ClearCall
    /\ evals_a' = EmptyMap
    /\ comparisons' = EmptyMap
    /\ UNCHANGED <<managerVars, parseVars, staticVars, minimaxVars, metricsVars>>

\* ------------------------------------------------------------------------
\* evaluate_minimax_standard
\* ------------------------------------------------------------------------

\* {"model_a": {"overall_score": a}, "model_b": {"overall_score": b}}
MinimaxReply(a, b) ==
    <<"{", "\"", "model_a", "\"", ":", " ",
      "{", "\"", "overall_score", "\"", ":", " ", a, "}", ",", " ",
      "\"", "model_b", "\"", ":", " ",
      "{", "\"", "overall_score", "\"", ":", " ", b, "}", "}">>

\* {"model_a": 5, "model_b": 5}
ScalarReply ==
    <<"{", "\"", "model_a", "\"", ":", " ", "5", ",", " ",
      "\"", "model_b", "\"", ":", " ", "5", "}">>

MinimaxOutcomes ==
    {Raised("TimeoutError", "Request timed out."),
     Returned(PyStr(<<"sorry", ",", " ", "no", " ", "scores">>)),
     Returned(PyStr(MinimaxReply("8", "6"))),
     Returned(PyStr(MinimaxReply("6", "9"))),
     Returned(PyStr(ScalarReply))}

\* None, or the parsed pair; every exception ends as None
_evaluate_single_judge_minimax(judge_name, chat) ==
    IF chat.raised THEN PyNone
    ELSE LET result == parse_minimax(chat.val) IN
           IF result.raised THEN PyNone ELSE result.val

\* "if result:" of lines 417 and 427
Truthy(result) == result # PyNone

\* a collection that keeps the latest result only
MinimaxStoreLatestOnly(res, judge_name, result) ==
    IF Truthy(result) THEN (judge_name :> result) ELSE res

\* lines 416-418
MinimaxStore(res, judge_name, result) ==
    IF Truthy(result) THEN (judge_name :> result) @@ res ELSE res

\* lines 424-429
ScoresOf(res, field) == [j \in DOMAIN res |-> res[j][field]]

MinimaxWeights == [minimax |-> 40, deepseek |-> 30, glm |-> 30]
Families == DOMAIN MinimaxWeights

\* the branch of lines 531-545 a judge name takes
FamilyOf(judge_name) == TypeOfName[judge_name]

\* d.get("overall_score", default) of a dict d, in thousandths
OverallOr(d, default) == Get(d.m, "overall_score", JNum(default))

calculate_weighted_score_with_30_40_30(minimax_score, deepseek_score, glm_score, weights) ==
    [weighted_score |-> Round2((minimax_score * 30 + deepseek_score * 40
                                  + glm_score * 30) \div 100),
     minimax_score |-> Round2(minimax_score),
     deepseek_score |-> Round2(deepseek_score),
     glm_score |-> Round2(glm_score),
     weights |-> MinimaxWeights]

\* calculate_weighted_score: the three scores are in units of 1e-5; weights
\* is None (PyNone) or a dict with the three keys, in hundredths
calculate_weighted_score(minimax_score, deepseek_score, glm_score, weights) ==
    LET Weighted(w) ==
            [weighted_score |-> Round2((minimax_score * w.minimax
                                          + deepseek_score * w.deepseek
                                          + glm_score * w.glm) \div 100),
             minimax_score |-> Round2(minimax_score),
             deepseek_score |-> Round2(deepseek_score),
             glm_score |-> Round2(glm_score),
             weights |-> w]
    IN  Weighted(IF weights = PyNone THEN MinimaxWeights ELSE weights)

\* lines 548-550: the mean of the two scores the judges of a family gave,
\* 0 when the family gave none; in units of 1e-5
FamilyAverage(model_a_scores, model_b_scores, family) ==
    LET js == {j \in DOMAIN model_a_scores : FamilyOf(j) = family}
        total == SumOver([j \in js |->
                            NumOf(OverallOr(model_a_scores[j], 0))
                              + NumOf(OverallOr(model_b_scores[j], 0))], js)
    IN  IF js = {} THEN 0 ELSE (total * 100) \div (2 * Cardinality(js))

\* lines 553-563: the score passed for a family, in units of 1e-5
FamilyScore(scores, family, average) ==
    LET key == family \o "_judge" IN
      IF key \in DOMAIN scores /\ "overall_score" \in DOMAIN scores[key].m
      THEN NumOf(scores[key].m["overall_score"]) * 100
      ELSE average

_calculate_minimax_weighted_scores(model_a_scores, model_b_scores) ==
    LET all == {model_a_scores[j] : j \in DOMAIN model_a_scores}
                 \cup {model_b_scores[j] : j \in DOMAIN model_b_scores}
        avg == [f \in Families |-> FamilyAverage(model_a_scores, model_b_scores, f)]
        weighted(scores) ==
            calculate_weighted_score(FamilyScore(scores, "minimax", avg["minimax"]),
                                     FamilyScore(scores, "deepseek", avg["deepseek"]),
                                     FamilyScore(scores, "glm", avg["glm"]), PyNone)
    IN  IF \E v \in all : v.t # "obj"
        THEN Raised("AttributeError", "object has no attribute 'get'")
        ELSE IF \E v \in all : "overall_score" \in DOMAIN v.m
                                 /\ ~IsNumeric(v.m["overall_score"])
        THEN Raised("TypeError", "unsupported operand type(s)")
        ELSE Returned([model_a_weighted |-> weighted(model_a_scores).weighted_score,
                       model_b_weighted |-> weighted(model_b_scores).weighted_score,
                       model_a_breakdown |-> weighted(model_a_scores),
                       model_b_breakdown |-> weighted(model_b_scores)])

\* round(num / den, 2) of a value num / den in thousandths
RoundRatio2(num, den) ==
    LET q == num \div (10 * den)
        r == num % (10 * den)
        up == 2 * r > 10 * den \/ (2 * r = 10 * den /\ q % 2 = 1)
    IN  10 * (IF up THEN q + 1 ELSE q)

\* dimension_weights.get(dimension, 0.0), in hundredths
WeightOf(dimension_weights, dimension) ==
    IF dimension \in DOMAIN dimension_weights THEN dimension_weights[dimension] ELSE 0

\* lines 125-133: one entry per scored dimension
Breakdown(dimension_scores, dimension_weights) ==
    [d \in DOMAIN dimension_scores |->
       [score |-> Round2(dimension_scores[d] * 100),
        weight |-> WeightOf(dimension_weights, d),
        contribution |-> Round2(dimension_scores[d] * WeightOf(dimension_weights, d))]]

MiniMax_calculate_overall_score_over_scored_weights(dimension_scores, dimension_weights) ==
    LET scored == DOMAIN dimension_scores
        weighted_sum == SumOver([d \in scored |->
                                   dimension_scores[d] * WeightOf(dimension_weights, d)], scored)
        total_weight == SumOver([d \in scored |-> WeightOf(dimension_weights, d)], scored)
    IN  [overall_score |-> IF total_weight > 0 THEN RoundRatio2(weighted_sum, total_weight)
                           ELSE 0,
         dimension_scores |-> [d \in scored |-> Round2(dimension_scores[d] * 100)],
         dimension_weights |-> dimension_weights,
         breakdown |-> Breakdown(dimension_scores, dimension_weights)]

\* MiniMaxScoreCalculator.calculate_overall_score: the scores are in
\* thousandths and the weights in hundredths
MiniMax_calculate_overall_score(dimension_scores, dimension_weights) ==
    LET scored == DOMAIN dimension_scores
        weighted_sum == SumOver([d \in scored |->
                                   dimension_scores[d] * WeightOf(dimension_weights, d)], scored)
        total_weight == SumOver(dimension_weights, DOMAIN dimension_weights)
    IN  [overall_score |-> IF total_weight > 0 THEN RoundRatio2(weighted_sum, total_weight)
                           ELSE 0,
         dimension_scores |-> [d \in scored |-> Round2(dimension_scores[d] * 100)],
         dimension_weights |-> dimension_weights,
         breakdown |-> Breakdown(dimension_scores, dimension_weights)]

\* a float of a statistic: a number in thousandths, or nan
Float(v) == [nan |-> FALSE, n |-> v]
NaN == [nan |-> TRUE, n |-> 0]

Abs(x) == IF x < 0 THEN -x ELSE x

\* sum(x * y for x, y in zip(scores1, scores2)), the scores whole numbers
SumProducts(scores1, scores2) ==
    SumOver([i \in DOMAIN scores1 |-> scores1[i] * scores2[i]], DOMAIN scores1)

\* lines 264-272: the numerator, and the product under the square root
PearsonTerms(scores1, scores2) ==
    LET Terms(n, sum1, sum2) ==
            [numerator |-> n * SumProducts(scores1, scores2) - sum1 * sum2,
             under_root |-> (n * SumProducts(scores1, scores1) - sum1 * sum1)
                              * (n * SumProducts(scores2, scores2) - sum2 * sum2)]
    IN  Terms(Len(scores1), SumOver(scores1, DOMAIN scores1), SumOver(scores2, DOMAIN scores2))

\* round(numerator / sqrt(under_root), 3) in thousandths, for under_root > 0
RoundedCorrelation(numerator, under_root) ==
    LET square == 4000000 * numerator * numerator
        k == CHOOSE r \in 0..1000 :
               /\ r = 0 \/ (2 * r - 1) * (2 * r - 1) * under_root <= square
               /\ square < (2 * r + 1) * (2 * r + 1) * under_root
    IN  IF numerator < 0 THEN -k ELSE k

\* abs(numerator / sqrt(under_root)) >= percent / 100
AtLeast(numerator, under_root, percent) ==
    10000 * numerator * numerator >= percent * percent * under_root

\* lines 277-288
Interpretation(numerator, under_root) ==
    LET Direction(strength) ==
            IF numerator > 0 THEN <<strength, "positive">> ELSE <<strength, "negative">>
    IN  IF AtLeast(numerator, under_root, 80) THEN Direction("Very strong")
        ELSE IF AtLeast(numerator, under_root, 60) THEN Direction("Strong")
        ELSE IF AtLeast(numerator, under_root, 40) THEN Direction("Moderate")
        ELSE IF AtLeast(numerator, under_root, 20) THEN Direction("Weak")
        ELSE <<"Very weak or no correlation">>

\* MiniMaxScoreCalculator.calculate_pearson_correlation; scipy tells whether
\* scipy can be imported. stats.pearsonr returns nan for a constant series,
\* the manual calculation 0; the p-value scipy computes is kept as "computed"
MiniMax_calculate_pearson_correlation(scores1, scores2, scipy) ==
    LET Computed(t) ==
            IF t.under_root = 0
            THEN [correlation |-> IF scipy THEN NaN ELSE Float(0),
                  p_value |-> IF scipy THEN "nan" ELSE "None",
                  interpretation |-> <<"Very weak or no correlation">>]
            ELSE [correlation |-> Float(RoundedCorrelation(t.numerator, t.under_root)),
                  p_value |-> IF scipy THEN "computed" ELSE "None",
                  interpretation |-> Interpretation(t.numerator, t.under_root)]
    IN  IF Len(scores1) # Len(scores2)
        THEN Raised("ValueError", "scores1 and scores2 must have the same length")
        ELSE IF Len(scores1) < 2
        THEN Returned([correlation |-> Float(0), p_value |-> "None",
                       interpretation |-> <<"Insufficient data">>])
        ELSE Returned(Computed(PearsonTerms(scores1, scores2)))

\* ScoreNormalizer.calculate_pearson_correlation: the pair (correlation,
\* p-value); the module imports scipy. The correlation is kept to 3 decimals
ScoreNormalizer_calculate_pearson_correlation(scores1, scores2) ==
    LET Computed(t) ==
            IF t.under_root = 0 THEN <<NaN, "nan">>
            ELSE <<Float(RoundedCorrelation(t.numerator, t.under_root)), "computed">>
    IN  IF Len(scores1) # Len(scores2) \/ Len(scores1) < 2
        THEN Returned(<<Float(0), "1.0">>)
        ELSE Returned(Computed(PearsonTerms(scores1, scores2)))

\* rater1 comes before rater2 in ratings: the raters are inserted in the
\* order of the judges
Precedes(rater1, rater2) ==
    \E i, j \in DOMAIN JudgeOrder :
      i < j /\ JudgeOrder[i] = rater1 /\ JudgeOrder[j] = rater2

\* lines 324-329: the pairs of raters a correlation is computed for
ComparablePairs(ratings) ==
    {pair \in (DOMAIN ratings) \X (DOMAIN ratings) :
       /\ Precedes(pair[1], pair[2])
       /\ Len(ratings[pair[1]]) = Len(ratings[pair[2]])
       /\ Len(ratings[pair[1]]) > 1}

\* the whole number nearest to num / den, a tie to the even one
RoundDiv(num, den) ==
    LET q == num \div den
        r == num % den
    IN  IF 2 * r > den \/ (2 * r = den /\ q % 2 = 1) THEN q + 1 ELSE q

\* lines 339-346: the label of the mean total / count, total in thousandths
ReliabilityLabel(total, count) ==
    IF total >= 800 * count THEN "Excellent"
    ELSE IF total >= 600 * count THEN "Good"
    ELSE IF total >= 400 * count THEN "Fair"
    ELSE "Poor"

\* MiniMaxScoreCalculator.calculate_inter_rater_reliability: ratings maps a
\* rater to its series; the key of a pair stands for "rater1_vs_rater2".
\* No comparison with nan is true, so a nan mean is labelled "Poor"
MiniMax_calculate_inter_rater_reliability(ratings, scipy) ==
    LET Assessed(correlations, average, label) ==
            [average_correlation |-> average,
             correlations |-> correlations,
             reliability |-> label]
        Averaged(correlations, pairs) ==
            IF pairs = {}
            THEN Assessed(correlations, Float(0), ReliabilityLabel(0, 1))
            ELSE IF \E pair \in pairs : correlations[pair].nan
            THEN Assessed(correlations, NaN, "Poor")
            ELSE Assessed(correlations,
                          Float(RoundDiv(SumOver([pair \in pairs |-> correlations[pair].n],
                                                 pairs),
                                         Cardinality(pairs))),
                          ReliabilityLabel(SumOver([pair \in pairs |-> correlations[pair].n],
                                                   pairs),
                                           Cardinality(pairs)))
        Paired(pairs) ==
            Averaged([pair \in pairs |->
                        MiniMax_calculate_pearson_correlation(
                            ratings[pair[1]], ratings[pair[2]], scipy).val.correlation],
                     pairs)
    IN  IF Cardinality(DOMAIN ratings) < 2
        THEN [average_correlation |-> Float(0),
              correlations |-> EmptyMap,
              reliability |-> "Insufficient raters"]
        ELSE Paired(ComparablePairs(ratings))

\* lines 211-212: the z-score of a confidence level in percent, in thousandths
MiniMaxZScore(confidence) ==
    IF confidence = 90 THEN 1645 ELSE IF confidence = 99 THEN 2576 ELSE 1960

\* normalization.py line 88
NormalizerZScore(confidence) == IF confidence >= 95 THEN 1960 ELSE 1645

\* n * sum(x^2) - sum(x)^2 of whole numbers: n^2 times the variance np.std
\* takes the root of, n * (n - 1) times the one of np.std(ddof=1)
Spread(scores) ==
    LET Of(total) == Len(scores) * SumProducts(scores, scores) - total * total
    IN  Of(SumOver(scores, DOMAIN scores))

\* (mean, mean - margin, mean + margin, margin), each rounded to 2 decimals,
\* of n whole numbers with the sum total, where std = sqrt(spread / (n * scale))
\* and margin = z * std / sqrt(n) = sqrt(z^2 * spread / (n^2 * scale));
\* the roundings are searched for among the hundredths lo..hi
IntervalBounds(total, n, scale, z, spread, lo, hi) ==
    LET Below(x) == x <= 0 \/ 25 * scale * x * x <= z * z * spread
        Above(y) == y >= 0 /\ z * z * spread <= 25 * scale * y * y
        margin == CHOOSE k \in 0..(hi - lo) :
                    Below(n * (2 * k - 1)) /\ ~Below(n * (2 * k + 1))
        upper == CHOOSE k \in lo..hi :
                   /\ Below(n * (2 * k - 1) - 200 * total)
                   /\ ~Below(n * (2 * k + 1) - 200 * total)
        lower == CHOOSE k \in lo..hi :
                   /\ Above(200 * total - n * (2 * k - 1))
                   /\ ~Above(200 * total - n * (2 * k + 1))
    IN  <<Float(10 * RoundDiv(100 * total, n)), Float(10 * lower),
          Float(10 * upper), Float(10 * margin)>>

\* the hundredths a bound of the interval of scores can round to: the margin
\* is at most z / 2 times the distance of the largest and the smallest score
LowestBound(scores, z) ==
    100 * Min({scores[i] : i \in DOMAIN scores})
      - (z * (Max({scores[i] : i \in DOMAIN scores})
                - Min({scores[i] : i \in DOMAIN scores}))) \div 20 - 1
HighestBound(scores, z) ==
    100 * Max({scores[i] : i \in DOMAIN scores})
      + (z * (Max({scores[i] : i \in DOMAIN scores})
                - Min({scores[i] : i \in DOMAIN scores}))) \div 20 + 1

\* MiniMaxScoreCalculator.calculate_confidence_interval of whole-number
\* scores: np.mean and np.std of an empty array are nan, and the standard
\* error of no scores is 0
MiniMax_calculate_confidence_interval(scores, confidence) ==
    IF Len(scores) = 0 THEN <<NaN, NaN, NaN, Float(0)>>
    ELSE IntervalBounds(SumOver(scores, DOMAIN scores), Len(scores), Len(scores),
                        MiniMaxZScore(confidence), Spread(scores),
                        LowestBound(scores, MiniMaxZScore(confidence)),
                        HighestBound(scores, MiniMaxZScore(confidence)))

\* ScoreNormalizer.calculate_confidence_interval of whole-number scores:
\* np.std(ddof=1) of one score is nan; the floats it returns unrounded are
\* kept to 2 decimals
ScoreNormalizer_calculate_confidence_interval(scores, confidence) ==
    IF Len(scores) = 0 THEN <<Float(0), Float(0), Float(0), Float(0)>>
    ELSE IF Len(scores) = 1 THEN <<Float(1000 * scores[1]), NaN, NaN, NaN>>
    ELSE IntervalBounds(SumOver(scores, DOMAIN scores), Len(scores), Len(scores) - 1,
                        NormalizerZScore(confidence), Spread(scores),
                        LowestBound(scores, NormalizerZScore(confidence)),
                        HighestBound(scores, NormalizerZScore(confidence)))

\* normalization.py lines 176-182: the default grade_thresholds, a band's
\* (lowest, highest) score in units of 1e-4
DefaultGradeThresholds ==
    [excellent |-> <<90000, 100000>>,
     good |-> <<75000, 89000>>,
     qualified |-> <<60000, 74000>>,
     unqualified |-> <<30000, 59000>>,
     critical |-> <<0, 29000>>]

MiniMax_grade_score_with_exclusive_edges(score) ==
    IF score > 90000 THEN "excellent"
    ELSE IF score > 75000 THEN "good"
    ELSE IF score > 60000 THEN "qualified"
    ELSE IF score > 30000 THEN "unqualified"
    ELSE "critical"

\* MiniMaxScoreCalculator.grade_score of a score in units of 1e-4; the five
\* labels it returns are written with the names grade_thresholds gives the
\* bands
MiniMax_grade_score(score) ==
    IF score >= 90000 THEN "excellent"
    ELSE IF score >= 75000 THEN "good"
    ELSE IF score >= 60000 THEN "qualified"
    ELSE IF score >= 30000 THEN "unqualified"
    ELSE "critical"

\* ScoreNormalizer.grade_score: grade_thresholds is None (PyNone) or a dict
\* with the five bands; only the lowest score of a band is read
ScoreNormalizer_grade_score(score, grade_thresholds) ==
    LET Graded(thresholds) ==
            IF score >= thresholds.excellent[1] THEN "excellent"
            ELSE IF score >= thresholds.good[1] THEN "good"
            ELSE IF score >= thresholds.qualified[1] THEN "qualified"
            ELSE IF score >= thresholds.unqualified[1] THEN "unqualified"
            ELSE "critical"
    IN  Graded(IF grade_thresholds = PyNone THEN DefaultGradeThresholds
               ELSE grade_thresholds)

\* calculate_statistics: {} for no scores; of the statistics the mean, the
\* minimum and the maximum are kept
calculate_statistics(scores) ==
    IF DOMAIN scores = {} THEN EmptyMap
    ELSE [mean |-> RoundRatio2(SumOver(scores, DOMAIN scores), Cardinality(DOMAIN scores)),
          min |-> Min({scores[j] : j \in DOMAIN scores}),
          max |-> Max({scores[j] : j \in DOMAIN scores})]

\* lines 573-605, reached only with dict values and numeric overall scores;
\* the correlation is kept as computed or None, the reliability as its label
\* (every rater has one rating, so no pairwise correlation is computed and
\* scipy is not reached)
_calculate_minimax_statistics(model_a_scores, model_b_scores) ==
    LET a_scores == [j \in DOMAIN model_a_scores |-> NumOf(OverallOr(model_a_scores[j], 0))]
        b_scores == [j \in DOMAIN model_b_scores |-> NumOf(OverallOr(model_b_scores[j], 0))]
        n == Cardinality(DOMAIN a_scores)
    IN  [model_a |-> calculate_statistics(a_scores),
         model_b |-> calculate_statistics(b_scores),
         correlation |-> IF n > 1 THEN "computed" ELSE "None",
         inter_rater_reliability |->
             MiniMax_calculate_inter_rater_reliability(
                 [j \in DOMAIN model_a_scores |-> <<a_scores[j]>>], FALSE).reliability]

\* lines 378-385
EmptyMinimaxResult ==
    [model_a_scores |-> EmptyMap, model_b_scores |-> EmptyMap,
     weighted_scores |-> EmptyMap, statistics |-> EmptyMap,
     error |-> "Quality evaluation not enabled"]

\* lines 421-453
MinimaxResult(res) ==
    LET model_a_scores == ScoresOf(res, "model_a_score")
        model_b_scores == ScoresOf(res, "model_b_score")
        weighted_scores == _calculate_minimax_weighted_scores(model_a_scores, model_b_scores)
    IN  IF weighted_scores.raised THEN weighted_scores
        ELSE Returned([model_a_scores |-> model_a_scores,
                       model_b_scores |-> model_b_scores,
                       weighted_scores |-> weighted_scores.val,
                       statistics |-> _calculate_minimax_statistics(model_a_scores,
                                                                    model_b_scores),
                       error |-> ""])

\* line 378
MinimaxNoUsableJudges(en, js) == ~en \/ js = <<>>

\* lines 378-399: the early return, or the pool is built (a pool of zero
\* workers raises ValueError)
evaluate_minimax_standard ==
    /\ op = "idle"
    /\ op' = "minimax"
    /\ request' = [model_name |-> "model_a", category |-> "qa_simple"]
    /\ \E outc \in [JudgeSet -> MinimaxOutcomes] : outcome' = outc
    /\ prompts' = EmptyMap
    /\ worker' = [j \in JudgeSet |-> "idle"]
    /\ future' = EmptyMap
    /\ collected' = <<>>
    /\ evaluations' = EmptyMap
    /\ results' = EmptyMap
    /\ IF MinimaxNoUsableJudges(enabled, judges)
       THEN /\ phase' = "aggregated"
            /\ pendingSubmit' = <<>>
            /\ mm_return' = Returned(EmptyMinimaxResult)
       ELSE IF Len(judges) = 0
       THEN /\ phase' = "raised"
            /\ pendingSubmit' = <<>>
            /\ mm_return' = Raised("ValueError", "max_workers must be greater than 0")
       ELSE /\ phase' = "dispatched"
            /\ pendingSubmit' = judges
            /\ mm_return' = Returned(EmptyMap)
    /\ UNCHANGED <<managerVars, compareVars, parseVars, staticVars, metricsVars>>

\* lines 401-409: executor.submit of the next judge
MinimaxSubmit ==
    /\ op = "minimax"
    /\ phase = "dispatched"
    /\ pendingSubmit # <<>>
    /\ worker' = [worker EXCEPT ![Head(pendingSubmit)] = "running"]
    /\ pendingSubmit' = Tail(pendingSubmit)
    /\ phase' = IF Tail(pendingSubmit) = <<>> THEN "collecting" ELSE "dispatched"
    /\ UNCHANGED <<managerVars, op, request, outcome, prompts, future, collected,
                   evaluations, compareVars, parseVars, staticVars, minimaxVars, metricsVars>>

\* a pool task runs _evaluate_single_judge_minimax to its end
MinimaxWorkerFinish(j) ==
    /\ op = "minimax"
    /\ worker[j] = "running"
    /\ worker' = [worker EXCEPT ![j] = "done"]
    /\ future' = (j :> _evaluate_single_judge_minimax(j, outcome[j])) @@ future
    /\ UNCHANGED <<managerVars, op, request, outcome, prompts, phase, pendingSubmit,
                   collected, evaluations, compareVars, parseVars, staticVars, minimaxVars, metricsVars>>

\* lines 411-420: as_completed hands over any finished future
MinimaxCollect(j) ==
    /\ op = "minimax"
    /\ phase = "collecting"
    /\ worker[j] = "done"
    /\ j \notin RangeOf(collected)
    /\ results' = MinimaxStore(results, j, future[j])
    /\ collected' = Append(collected, j)
    /\ UNCHANGED <<managerVars, op, request, outcome, prompts, phase, pendingSubmit,
                   worker, future, evaluations, compareVars, parseVars, staticVars, mm_return, metricsVars>>

\* lines 421-453, after the pool has shut down
MinimaxReturn ==
    /\ op = "minimax"
    /\ phase = "collecting"
    /\ Len(collected) = Len(judges)
    /\ mm_return' = MinimaxResult(results)
    /\ phase' = IF MinimaxResult(results).raised THEN "raised" ELSE "aggregated"
    /\ UNCHANGED <<managerVars, op, request, outcome, prompts, pendingSubmit, worker,
                   future, collected, evaluations, compareVars, parseVars, staticVars, results, metricsVars>>

\* the caller of evaluate_minimax_standard has the result (or the exception)
MinimaxDone ==
    /\ op = "minimax"
    /\ phase \in {"aggregated", "raised"}
    /\ op' = "idle"
    /\ ClearCall
    /\ results' = EmptyMap
    /\ mm_return' = Returned(EmptyMap)
    /\ UNCHANGED <<managerVars, compareVars, parseVars, staticVars, metricsVars>>

\* ------------------------------------------------------------------------
\* Specification of the manager
\* ------------------------------------------------------------------------

Next ==
    \/ evaluate_single_output
    \/ Dispatch
    \/ Submit
    \/ \E j \in JudgeNames : j \in DOMAIN worker /\ WorkerFinish(j)
    \/ \E j \in JudgeNames : j \in DOMAIN worker /\ Collect(j)
    \/ ReturnParallel
    \/ SeqCall
    \/ \E j \in JudgeNames : j \in DOMAIN worker /\ SeqFinish(j)
    \/ ReturnSequential
    \/ SingleDone
    \/ compare_outputs
    \/ CompareSecond
    \/ CompareFinish
    \/ CompareDone
    \/ evaluate_minimax_standard
    \/ MinimaxSubmit
    \/ \E j \in JudgeNames : j \in DOMAIN worker /\ MinimaxWorkerFinish(j)
    \/ \E j \in JudgeNames : j \in DOMAIN worker /\ MinimaxCollect(j)
    \/ MinimaxReturn
    \/ MinimaxDone

Spec == Init /\ [][Next]_vars

\* the steps of a request in progress: the main thread and the pool tasks
\* keep running, so a request does not stop while one of them can be taken
RequestStep ==
    \/ Dispatch
    \/ Submit
    \/ \E j \in JudgeNames : j \in DOMAIN worker /\ WorkerFinish(j)
    \/ \E j \in JudgeNames : j \in DOMAIN worker /\ Collect(j)
    \/ ReturnParallel
    \/ SeqCall
    \/ \E j \in JudgeNames : j \in DOMAIN worker /\ SeqFinish(j)
    \/ ReturnSequential

FairSpec == Spec /\ WF_vars(RequestStep)

\* ------------------------------------------------------------------------
\* Specification of the parser: parse_standard applied to one reply
\* ------------------------------------------------------------------------

MaxTextLen == 3

ParserAlphabet == {"accuracy", "\\", "d", "{", "}", "4"}

\* {"scores": {"accuracy": 4}}
PlainJsonReply ==
    <<"{", "\"", "scores", "\"", ":", " ",
      "{", "\"", "accuracy", "\"", ":", " ", "4", "}", "}">>

\* {"scores": {"accuracy": 4}
MalformedJsonReply == SubSeq(PlainJsonReply, 1, Len(PlainJsonReply) - 1)

\* {"scores": 5}
ScalarScoresReply == <<"{", "\"", "scores", "\"", ":", " ", "5", "}">>

\* accuracy: 4, clarity: 5
PlainTextReply == <<"accuracy", ":", " ", "4", ",", " ", "clarity", ":", " ", "5">>

\* accuracy: 4, humor: 5
InventedKeyReply == <<"accuracy", ":", " ", "4", ",", " ", "humor", ":", " ", "5">>

\* the four sub-scores of one model, as a JSON object
SubScores(a, b, c, d) ==
    <<"{", "\"", "accuracy_score", "\"", ":", " ", a, ",", " ",
      "\"", "completeness_score", "\"", ":", " ", b, ",", " ",
      "\"", "logic_score", "\"", ":", " ", c, ",", " ",
      "\"", "creativity_score", "\"", ":", " ", d, "}">>

\* {"model_a": {... four sub-scores ...}, "model_b": {...}}
FullMinimaxReply ==
    <<"{", "\"", "model_a", "\"", ":", " ">> \o SubScores("8", "7", "8", "6")
      \o <<",", " ", "\"", "model_b", "\"", ":", " ">> \o SubScores("6", "9", "7", "8")
      \o <<"}">>

\* the same object in a fenced json block, and after a sentence
FencedMinimaxReply == <<"<fence>", "json", "\n">> \o FullMinimaxReply \o <<"\n", "<fence>">>
ProseMinimaxReply == <<"Here", " ", "is", " ", "my", " ", "evaluation", ":", " ">> \o FullMinimaxReply

SampleReplies ==
    {EmbeddedReply, RegexReply, PlainJsonReply, MalformedJsonReply,
     ScalarScoresReply, PlainTextReply, InventedKeyReply,
     FullMinimaxReply, FencedMinimaxReply, ProseMinimaxReply,
     MinimaxReply("8", "6"), ScalarReply}

Replies ==
    {PyNone}
      \cup {PyStr(t) : t \in SampleReplies}
      \cup {PyStr(t) : t \in UNION {[1..n -> ParserAlphabet] : n \in 0..MaxTextLen}}

CriteriaLists ==
    {<<>>, <<"accuracy", "clarity">>, CATEGORY_RUBRICS["qa_simple"].criteria}

InitParser ==
    /\ enabled = FALSE
    /\ judges_config = EmptyMap
    /\ evaluation_strategy = EmptyMap
    /\ judges = <<>>
    /\ op = "parser"
    /\ NoCall
    /\ evals_a = EmptyMap
    /\ comparisons = EmptyMap
    /\ results = EmptyMap
    /\ mm_return = Returned(EmptyMap)
    /\ NoMetrics
    /\ parse_in \in [response : Replies, criteria : CriteriaLists, category : {"qa_simple"}]
    /\ parse_out = Returned(EmptyMap)
    /\ NoStatic

ParseStandard ==
    /\ op = "parser"
    /\ op' = "parsed"
    /\ parse_out' = parse_standard(parse_in.response, parse_in.criteria, parse_in.category)
    /\ UNCHANGED <<managerVars, callVars, compareVars, parse_in, staticVars, minimaxVars, metricsVars>>

ParseMinimax ==
    /\ op = "parser"
    /\ op' = "parsed_minimax"
    /\ parse_out' = parse_minimax(parse_in.response)
    /\ UNCHANGED <<managerVars, callVars, compareVars, parse_in, staticVars, minimaxVars, metricsVars>>

NextParser == ParseStandard \/ ParseMinimax

SpecParser == InitParser /\ [][NextParser]_vars

\* ------------------------------------------------------------------------
\* JudgeFactory called on its own
\* ------------------------------------------------------------------------

FactoryConfigs ==
    {[judges |-> [n \in DOMAIN kinds |-> Entry(n, kinds[n])]] :
       kinds \in UNION {[D -> FactoryEntryKinds] : D \in SUBSET JudgeNames}}

InitFactory ==
    /\ enabled = FALSE
    /\ judges_config = EmptyMap
    /\ evaluation_strategy = EmptyMap
    /\ judges = <<>>
    /\ op = "factory"
    /\ NoCall
    /\ evals_a = EmptyMap
    /\ comparisons = EmptyMap
    /\ results = EmptyMap
    /\ mm_return = Returned(EmptyMap)
    /\ NoMetrics
    /\ NoParse
    /\ static_in \in [method : {"create_all"}, config : FactoryConfigs \cup {EmptyMap}]
                      \cup [method : {"validate_config"},
                            config : FactoryConfigs \cup {EmptyMap, [judges |-> PyNone]}]
    /\ static_out = Returned(EmptyMap)

CreateAll ==
    /\ op = "factory"
    /\ static_in.method = "create_all"
    /\ op' = "created"
    /\ static_out' = Returned(create_all(Get(static_in.config, "judges", EmptyMap)))
    /\ UNCHANGED <<managerVars, callVars, compareVars, parseVars, static_in, minimaxVars, metricsVars>>

ValidateConfig ==
    /\ op = "factory"
    /\ static_in.method = "validate_config"
    /\ op' = "validated"
    /\ static_out' = Returned(validate_config(static_in.config))
    /\ UNCHANGED <<managerVars, callVars, compareVars, parseVars, static_in, minimaxVars, metricsVars>>

NextFactory == CreateAll \/ ValidateConfig

SpecFactory == InitFactory /\ [][NextFactory]_vars

\* ------------------------------------------------------------------------
\* ScoringRubric and MiniMaxScoreCalculator called on their own
\* ------------------------------------------------------------------------

\* scores of calculate_overall_score: criteria of the rubrics and one no
\* rubric names, each absent or with a score
RubricScoreValues == {1000, 3500, 5000}
RubricScoreKeys == {"accuracy", "conciseness", "clarity", "relevance", "humor"}
RubricCalls ==
    [method : {"ScoringRubric.calculate_overall_score"},
     category : {"qa_simple", "translation", "uncategorized"},
     scores : UNION {[D -> {JNum(v) : v \in RubricScoreValues}] :
                       D \in SUBSET RubricScoreKeys}]

\* calculate_weighted_score: three scores of 0..10 with the default weights,
\* and custom weights (the defaults spelled out, and sums of 1.5, 1.1 and 0)
MaxRating == 10
CustomWeights ==
    {[minimax |-> 40, deepseek |-> 30, glm |-> 30],
     [minimax |-> 50, deepseek |-> 50, glm |-> 50],
     [minimax |-> 50, deepseek |-> 30, glm |-> 30],
     [minimax |-> 0, deepseek |-> 0, glm |-> 0]}
WeightedCalls ==
    [method : {"calculate_weighted_score"},
     minimax_score : 0..MaxRating, deepseek_score : 0..MaxRating, glm_score : 0..MaxRating,
     weights : {PyNone}]
      \cup [method : {"calculate_weighted_score"},
            minimax_score : {9}, deepseek_score : {0, 7}, glm_score : {8, MaxRating},
            weights : CustomWeights]

\* MiniMaxScoreCalculator.calculate_overall_score: scores of none, one or two
\* dimensions in thousandths, weights of none to three dimensions in
\* hundredths (one dimension is never scored)
DimensionScoreValues == {6000, 7500, 8000}
DimensionWeightValues == {0, 50, 100}
ScoredDimensions == {"reasoning", "coding"}
WeightedDimensions == ScoredDimensions \cup {"writing"}
OverallCalls ==
    [method : {"MiniMaxScoreCalculator.calculate_overall_score"},
     dimension_scores : UNION {[D -> DimensionScoreValues] : D \in SUBSET ScoredDimensions},
     dimension_weights : UNION {[D -> DimensionWeightValues] :
                                  D \in SUBSET WeightedDimensions}]

\* score series of a rater: up to MaxSeries ratings out of 7, 8 and 9
MaxSeries == 3
RatingValues == {7, 8, 9}
Series == UNION {[1..n -> RatingValues] : n \in 0..MaxSeries}
PearsonCalls ==
    [method : {"MiniMaxScoreCalculator.calculate_pearson_correlation"},
     scores1 : Series, scores2 : Series, scipy : BOOLEAN]
      \cup [method : {"ScoreNormalizer.calculate_pearson_correlation"},
            scores1 : Series, scores2 : Series]

\* ratings of calculate_inter_rater_reliability: none to three raters, each
\* with no rating, one rating, or a series of two or three
RaterSeries ==
    {<<>>, <<8>>, <<7, 8>>, <<7, 8, 9>>, <<9, 8, 7>>, <<8, 7, 9>>, <<7, 9, 9>>, <<8, 8, 8>>}
ReliabilityCalls ==
    [method : {"MiniMaxScoreCalculator.calculate_inter_rater_reliability"},
     ratings : UNION {[R -> RaterSeries] : R \in SUBSET JudgeNames},
     scipy : BOOLEAN]

\* calculate_confidence_interval: a series and a confidence level in percent
ConfidenceLevels == {80, 90, 95, 99}
IntervalCalls ==
    [method : {"MiniMaxScoreCalculator.calculate_confidence_interval",
               "ScoreNormalizer.calculate_confidence_interval"},
     scores : Series, confidence : ConfidenceLevels]

\* grade_score: the scores of 0..10 by steps of GradeStep, the scores 1e-4
\* below and above every lowest and highest score of a band, a negative score
\* and one above 10; for ScoreNormalizer also thresholds one point higher
GradeStep == 500
GradeScores ==
    {n * GradeStep : n \in 0..(100000 \div GradeStep)}
      \cup {e + d : e \in {0, 29000, 30000, 59000, 60000, 74000, 75000, 89000, 90000, 100000},
                    d \in {-1, 0, 1}}
      \cup {-10000, 110000}
StricterGradeThresholds ==
    [excellent |-> <<100000, 100000>>,
     good |-> <<85000, 99000>>,
     qualified |-> <<70000, 84000>>,
     unqualified |-> <<40000, 69000>>,
     critical |-> <<0, 39000>>]
GradeCalls ==
    [method : {"MiniMaxScoreCalculator.grade_score"}, score : GradeScores]
      \cup [method : {"ScoreNormalizer.grade_score"}, score : GradeScores,
            grade_thresholds : {PyNone, DefaultGradeThresholds, StricterGradeThresholds}]

\* the evaluation made of a parsed reply: results in the shape parse_standard
\* documents (lines 42-48), a score for every criterion of qa_simple (a
\* number, or the string a judge wrote in its place) and the overall_score
\* that came with the reply
ParsedScoreValues == {JNum(2000), JNum(4000), JNum(5000), JStr(<<"4">>)}
StatedOverallValues == {JNum(1000), JNum(4500)}
ParsedResults ==
    [scores : [{"accuracy", "conciseness", "clarity"} -> ParsedScoreValues],
     overall_score : StatedOverallValues,
     strengths : {<<>>}, weaknesses : {<<>>}, reasoning : {<<"fine">>}]
ParsedCalls ==
    [method : {"JudgeManager._evaluate_with_judge"},
     category : {"qa_simple"},
     evaluation_result : ParsedResults]

StaticCalls ==
    RubricCalls \cup WeightedCalls \cup OverallCalls \cup PearsonCalls \cup ReliabilityCalls
      \cup IntervalCalls \cup GradeCalls \cup ParsedCalls

InitScorer ==
    /\ enabled = FALSE
    /\ judges_config = EmptyMap
    /\ evaluation_strategy = EmptyMap
    /\ judges = <<>>
    /\ op = "scorer"
    /\ NoCall
    /\ evals_a = EmptyMap
    /\ comparisons = EmptyMap
    /\ results = EmptyMap
    /\ mm_return = Returned(EmptyMap)
    /\ NoMetrics
    /\ NoParse
    /\ static_in \in StaticCalls
    /\ static_out = Returned(EmptyMap)

\* the call static_in describes returns or raises
StaticCall(method, outcome_of_call) ==
    /\ op = "scorer"
    /\ static_in.method = method
    /\ op' = "scored"
    /\ static_out' = outcome_of_call
    /\ UNCHANGED <<managerVars, callVars, compareVars, parseVars, static_in, minimaxVars, metricsVars>>

RubricOverallScore ==
    StaticCall("ScoringRubric.calculate_overall_score",
               calculate_overall_score(static_in.category, static_in.scores))

\* scores are passed in units of 1e-5
WeightedScore ==
    StaticCall("calculate_weighted_score",
               Returned(calculate_weighted_score(static_in.minimax_score * 100000,
                                                 static_in.deepseek_score * 100000,
                                                 static_in.glm_score * 100000,
                                                 static_in.weights)))

MiniMaxOverallScore ==
    StaticCall("MiniMaxScoreCalculator.calculate_overall_score",
               Returned(MiniMax_calculate_overall_score(static_in.dimension_scores,
                                                        static_in.dimension_weights)))

MiniMaxPearson ==
    StaticCall("MiniMaxScoreCalculator.calculate_pearson_correlation",
               MiniMax_calculate_pearson_correlation(static_in.scores1, static_in.scores2,
                                                     static_in.scipy))

NormalizerPearson ==
    StaticCall("ScoreNormalizer.calculate_pearson_correlation",
               ScoreNormalizer_calculate_pearson_correlation(static_in.scores1,
                                                             static_in.scores2))

MiniMaxReliability ==
    StaticCall("MiniMaxScoreCalculator.calculate_inter_rater_reliability",
               Returned(MiniMax_calculate_inter_rater_reliability(static_in.ratings,
                                                                  static_in.scipy)))

MiniMaxInterval ==
    StaticCall("MiniMaxScoreCalculator.calculate_confidence_interval",
               Returned(MiniMax_calculate_confidence_interval(static_in.scores,
                                                              static_in.confidence)))

NormalizerInterval ==
    StaticCall("ScoreNormalizer.calculate_confidence_interval",
               Returned(ScoreNormalizer_calculate_confidence_interval(static_in.scores,
                                                                      static_in.confidence)))

MiniMaxGrade ==
    StaticCall("MiniMaxScoreCalculator.grade_score",
               Returned(MiniMax_grade_score(static_in.score)))

NormalizerGrade ==
    StaticCall("ScoreNormalizer.grade_score",
               Returned(ScoreNormalizer_grade_score(static_in.score,
                                                    static_in.grade_thresholds)))

\* the same call is made again
RepeatCall ==
    /\ op = "scored"
    /\ op' = "scorer"
    /\ UNCHANGED <<managerVars, callVars, compareVars, parseVars, staticVars, minimaxVars, metricsVars>>

\* _evaluate_with_judge from the parsed reply on, for deepseek_judge
EvaluateParsed ==
    StaticCall("JudgeManager._evaluate_with_judge",
               Returned(EvaluationOfParsed("deepseek_judge", Entry("deepseek_judge", "ok").model,
                                           static_in.category, "deepseek",
                                           static_in.evaluation_result)))

NextScorer ==
    \/ EvaluateParsed
    \/ RubricOverallScore
    \/ WeightedScore
    \/ MiniMaxOverallScore
    \/ MiniMaxPearson
    \/ NormalizerPearson
    \/ MiniMaxReliability
    \/ MiniMaxInterval
    \/ NormalizerInterval
    \/ MiniMaxGrade
    \/ NormalizerGrade
    \/ RepeatCall

SpecScorer == InitScorer /\ [][NextScorer]_vars

\* ------------------------------------------------------------------------
\* compare_outputs, and JudgeComparison constructed on its own
\* ------------------------------------------------------------------------

\* the overall scores of the evaluations a JudgeComparison is constructed
\* with, in thousandths: a failed evaluation's 0.0 and scores of 3.0 to 5.0
ComparisonScoreValues == {0, 3000, 3400, 3500, 4000, 5000}

\* the evaluation of a judge with one criterion, scored as the whole
ScoredEvaluation(judge_name, overall) ==
    JudgeEvaluation(judge_name, Entry(judge_name, "ok").model, "qa_simple", "model_a",
                    [accuracy |-> JNum(overall)], overall, <<>>, <<>>, <<>>, TRUE, PyNone)

ComparisonEvaluations ==
    UNION {[D -> ComparisonScoreValues] : D \in SUBSET JudgeNames}

\* JudgeComparison(test_name, test_category, model_evaluated, evaluations)
InitComparison ==
    /\ enabled = FALSE
    /\ judges_config = EmptyMap
    /\ evaluation_strategy = EmptyMap
    /\ judges = <<>>
    /\ op = "comparison"
    /\ NoCall
    /\ evals_a = EmptyMap
    /\ \E overall \in ComparisonEvaluations :
         comparisons =
           [m \in {"model_a"} |->
              NewComparison(m, [j \in DOMAIN overall |-> ScoredEvaluation(j, overall[j])])]
    /\ NoParse
    /\ NoStatic
    /\ results = EmptyMap
    /\ mm_return = Returned(EmptyMap)
    /\ NoMetrics

InitCompare == Init \/ InitComparison

\* comparison.calculate_agreement_metrics()
CalculateAgreementMetrics ==
    /\ op = "comparison"
    /\ op' = "measured"
    /\ comparisons' = [m \in DOMAIN comparisons |-> calculate_agreement_metrics(comparisons[m])]
    /\ UNCHANGED <<managerVars, callVars, evals_a, parseVars, staticVars, minimaxVars, metricsVars>>

NextCompare ==
    \/ compare_outputs
    \/ Dispatch
    \/ Submit
    \/ \E j \in JudgeNames : j \in DOMAIN worker /\ WorkerFinish(j)
    \/ \E j \in JudgeNames : j \in DOMAIN worker /\ Collect(j)
    \/ ReturnParallel
    \/ SeqCall
    \/ \E j \in JudgeNames : j \in DOMAIN worker /\ SeqFinish(j)
    \/ ReturnSequential
    \/ CompareSecond
    \/ CompareFinish
    \/ CompareDone
    \/ CalculateAgreementMetrics

SpecCompare == InitCompare /\ [][NextCompare]_vars

\* ------------------------------------------------------------------------
\* evaluate_single_output with judges that set blind_evaluation themselves
\* ------------------------------------------------------------------------

BlindSettings == [JudgeNames -> BOOLEAN]

\* JudgeManager.__init__ with every declared judge usable and each entry
\* carrying its own blind_evaluation
InitBlind ==
    /\ enabled = TRUE
    /\ \E blind \in BlindSettings :
         judges_config =
           [n \in JudgeNames |-> Entry(n, "ok") @@ [blind_evaluation |-> blind[n]]]
    /\ evaluation_strategy \in Strategies
    /\ judges = create_all(judges_config)
    /\ op = "idle"
    /\ NoCall
    /\ evals_a = EmptyMap
    /\ comparisons = EmptyMap
    /\ NoParse
    /\ NoStatic
    /\ results = EmptyMap
    /\ mm_return = Returned(EmptyMap)
    /\ NoMetrics

NextSingle ==
    \/ evaluate_single_output
    \/ Dispatch
    \/ Submit
    \/ \E j \in JudgeNames : j \in DOMAIN worker /\ WorkerFinish(j)
    \/ \E j \in JudgeNames : j \in DOMAIN worker /\ Collect(j)
    \/ ReturnParallel
    \/ SeqCall
    \/ \E j \in JudgeNames : j \in DOMAIN worker /\ SeqFinish(j)
    \/ ReturnSequential
    \/ SingleDone

SpecBlind == InitBlind /\ [][NextSingle]_vars

\* ------------------------------------------------------------------------
\* MetricsCollector (metrics_collector.py)
\* ------------------------------------------------------------------------

MaxResults == 2

\* lines 238-243, and lines 253-257 and 270-274 without judge_model
NewJudgeStats(evaluation) ==
    [total_evaluations |-> 0, scores |-> <<>>, avg_score |-> 0,
     judge_model |-> evaluation.judge_model]
NewStats == [total_evaluations |-> 0, scores |-> <<>>, avg_score |-> 0]

\* lines 245-246, 259-260 and 276-277
Counted(stats, evaluation) ==
    [stats EXCEPT !.total_evaluations = @ + 1,
                  !.scores = Append(@, evaluation.overall_score)]

Put(d, key, value) == (key :> value) @@ d

\* the loop body that counts failed evaluations as well
CountEvaluationIncludingFailed(quality, result, judge_name, evaluation) ==
    LET of_model == Get(quality.by_model, result.model_name, EmptyMap)
        of_category == Get(quality.by_category, result.test_category, EmptyMap)
        of_category_model == Get(of_category, result.model_name, EmptyMap)
    IN  [by_judge |->
           Put(quality.by_judge, judge_name,
               Counted(Get(quality.by_judge, judge_name, NewJudgeStats(evaluation)),
                       evaluation)),
         by_model |->
           Put(quality.by_model, result.model_name,
               Put(of_model, judge_name,
                   Counted(Get(of_model, judge_name, NewStats), evaluation))),
         by_category |->
           Put(quality.by_category, result.test_category,
               Put(of_category, result.model_name,
                   Put(of_category_model, judge_name,
                       Counted(Get(of_category_model, judge_name, NewStats), evaluation)))),
         overall |->
           [total_evaluations |-> quality.overall.total_evaluations + 1,
            successful_evaluations |-> quality.overall.successful_evaluations + 1]]

\* lines 232-281: the body of the inner loop for one evaluation
CountEvaluation(quality, result, judge_name, evaluation) ==
    LET of_model == Get(quality.by_model, result.model_name, EmptyMap)
        of_category == Get(quality.by_category, result.test_category, EmptyMap)
        of_category_model == Get(of_category, result.model_name, EmptyMap)
    IN  IF ~evaluation.success THEN quality
        ELSE
        [by_judge |->
           Put(quality.by_judge, judge_name,
               Counted(Get(quality.by_judge, judge_name, NewJudgeStats(evaluation)),
                       evaluation)),
         by_model |->
           Put(quality.by_model, result.model_name,
               Put(of_model, judge_name,
                   Counted(Get(of_model, judge_name, NewStats), evaluation))),
         by_category |->
           Put(quality.by_category, result.test_category,
               Put(of_category, result.model_name,
                   Put(of_category_model, judge_name,
                       Counted(Get(of_category_model, judge_name, NewStats), evaluation)))),
         overall |->
           [total_evaluations |-> quality.overall.total_evaluations + 1,
            successful_evaluations |-> quality.overall.successful_evaluations + 1]]

\* line 231: the items of result.quality_evaluations from the n-th judge on
\* (a judge has one evaluation in a result, so the order of the items does
\* not show in the statistics)
RECURSIVE CountEvaluations(_, _, _)
CountEvaluations(quality, result, n) ==
    IF n > Len(JudgeOrder) THEN quality
    ELSE IF JudgeOrder[n] \notin DOMAIN result.quality_evaluations
    THEN CountEvaluations(quality, result, n + 1)
    ELSE CountEvaluations(CountEvaluation(quality, result, JudgeOrder[n],
                                          result.quality_evaluations[JudgeOrder[n]]),
                          result, n + 1)

\* lines 227-229: the results from the k-th on; a result without evaluations
\* is skipped
RECURSIVE CountResults(_, _, _)
CountResults(quality, test_results, k) ==
    IF k > Len(test_results) THEN quality
    ELSE IF test_results[k].quality_evaluations = EmptyMap
    THEN CountResults(quality, test_results, k + 1)
    ELSE CountResults(CountEvaluations(quality, test_results[k], 1), test_results, k + 1)

\* lines 285-286, 290-291 and 296-297: round(sum(scores) / len(scores), 2)
WithAverage(stats) ==
    IF stats.scores = <<>> THEN stats
    ELSE [stats EXCEPT !.avg_score =
            RoundRatio2(SumOver(stats.scores, DOMAIN stats.scores), Len(stats.scores))]

\* lines 283-297
Averaged(quality) ==
    [by_judge |-> [j \in DOMAIN quality.by_judge |-> WithAverage(quality.by_judge[j])],
     by_model |->
       [m \in DOMAIN quality.by_model |->
          [j \in DOMAIN quality.by_model[m] |-> WithAverage(quality.by_model[m][j])]],
     by_category |->
       [c \in DOMAIN quality.by_category |->
          [m \in DOMAIN quality.by_category[c] |->
             [j \in DOMAIN quality.by_category[c][m] |->
                WithAverage(quality.by_category[c][m][j])]]],
     overall |-> quality.overall]

\* lines 217-225
EmptyQualityStats ==
    [by_judge |-> EmptyMap, by_model |-> EmptyMap, by_category |-> EmptyMap,
     overall |-> [total_evaluations |-> 0, successful_evaluations |-> 0]]

get_quality_statistics(test_results) ==
    Averaged(CountResults(EmptyQualityStats, test_results, 1))

\* the evaluations a test result can carry: of deepseek_judge none, a
\* successful one with 4.5 or 3.0, or a failed one; of glm_judge none, a
\* successful one with 4.0, or a failed one
MetricsScores == [deepseek_judge |-> {4500, 3000}, glm_judge |-> {4000}]
JudgedBy(judge_name, category, model_name) ==
    {JudgeEvaluation(judge_name, Entry(judge_name, "ok").model, category, model_name,
                     [accuracy |-> JNum(v)], v, <<>>, <<>>, <<>>, TRUE, PyNone) :
       v \in MetricsScores[judge_name]}
      \cup {FailedEvaluation(judge_name, Entry(judge_name, "ok").model, category, model_name,
                             Raised("TimeoutError", "Request timed out."))}
QualityEvaluations(category, model_name) ==
    UNION {{f \in [D -> UNION {JudgedBy(j, category, model_name) : j \in D}] :
              \A j \in D : f[j] \in JudgedBy(j, category, model_name)} :
           D \in SUBSET DOMAIN MetricsScores}
\* the tests that were run: qa_simple with both models, translation with glm
TestsRun == {<<"deepseek", "qa_simple">>, <<"glm", "qa_simple">>, <<"glm", "translation">>}
TestResults ==
    UNION {{[model_name |-> t[1], test_category |-> t[2], quality_evaluations |-> q] :
              q \in QualityEvaluations(t[2], t[1])} :
           t \in TestsRun}

\* MetricsCollector.__init__, lines 13-16
InitMetrics ==
    /\ enabled = FALSE
    /\ judges_config = EmptyMap
    /\ evaluation_strategy = EmptyMap
    /\ judges = <<>>
    /\ op = "metrics"
    /\ NoCall
    /\ evals_a = EmptyMap
    /\ comparisons = EmptyMap
    /\ NoParse
    /\ NoStatic
    /\ results = EmptyMap
    /\ mm_return = Returned(EmptyMap)
    /\ NoMetrics

\* lines 18-25
add_result ==
    /\ op \in {"metrics", "counted"}
    /\ Len(collector_results) < MaxResults
    /\ op' = "metrics"
    /\ \E result \in TestResults : collector_results' = Append(collector_results, result)
    /\ UNCHANGED <<managerVars, callVars, compareVars, parseVars, staticVars, minimaxVars,
                   quality_stats>>

GetQualityStatistics ==
    /\ op = "metrics"
    /\ op' = "counted"
    /\ quality_stats' = get_quality_statistics(collector_results)
    /\ UNCHANGED <<managerVars, callVars, compareVars, parseVars, staticVars, minimaxVars,
                   collector_results>>

NextMetrics == add_result \/ GetQualityStatistics

SpecMetrics == InitMetrics /\ [][NextMetrics]_vars

\* ------------------------------------------------------------------------
\* Properties
\* ------------------------------------------------------------------------

\* evaluate_single_output has returned to its caller with judges to call
SingleReturned == op = "single" /\ phase = "aggregated" /\ judges # <<>>

NonEmptyMessage(error_message) == ~error_message.none /\ Concat(error_message.s) # ""

\* the mapping executor and as_completed build when the futures are handed
\* over in the order of submission
RECURSIVE CollectInOrder(_, _)
CollectInOrder(n, evals) ==
    IF n > Len(judges) THEN evals
    ELSE CollectInOrder(n + 1, CollectResult(evals, n, judges[n], EvaluationOf(judges[n])))

\* C1: partial-failure tolerance. When evaluate_single_output returns with a
\* non-empty set of judges, the mapping has exactly one entry per judge, every
\* judge whose chat call raised has success = false with a non-empty error
\* message, every other judge has success = true, and no exception reaches
\* the caller.
C1_PartialFailureTolerance ==
    /\ (op = "single" /\ judges # <<>>) => phase # "raised"
    /\ SingleReturned =>
         /\ DOMAIN evaluations = JudgeSet
         /\ \A j \in JudgeSet :
              IF outcome[j].raised
              THEN ~evaluations[j].success /\ NonEmptyMessage(evaluations[j].error_message)
              ELSE evaluations[j].success

\* three judges, the second one's call raises, the others reply
C1_Witness ==
    /\ SingleReturned
    /\ judges = JudgeOrder
    /\ outcome["deepseek_judge"].raised
    /\ outcome["minimax_judge"] = Returned(PyStr(EmbeddedReply))
    /\ outcome["glm_judge"] = Returned(PyNone)

\* the metrics of a comparison computed from its successful evaluations only
SuccessfulOnly(evals) == [j \in {k \in DOMAIN evals : evals[k].success} |-> evals[j]]
MetricsOfSuccessful(c) ==
    calculate_agreement_metrics(NewComparison(c.model_evaluated, SuccessfulOnly(c.evaluations)))

\* C2: a failed evaluation never contributes to aggregation. In the result
\* of compare_outputs the variance, the standard deviation, the agreement
\* level and the per-criterion disagreements of each candidate are those of
\* its evaluations with success = true.
C2_FailedExcludedFromAggregation ==
    op = "compared" =>
      \A m \in DOMAIN comparisons :
        LET c == comparisons[m]
            only == MetricsOfSuccessful(c)
        IN  /\ c.score_variance = only.score_variance
            /\ c.score_std = only.score_std
            /\ c.agreement_level = only.agreement_level
            /\ c.criteria_disagreements = only.criteria_disagreements

\* a comparison in which one judge succeeded and one failed
C2_Witness ==
    /\ op = "compared"
    /\ "model_a" \in DOMAIN comparisons
    /\ \E j, k \in DOMAIN comparisons["model_a"].evaluations :
         /\ comparisons["model_a"].evaluations[j].success
         /\ ~comparisons["model_a"].evaluations[k].success

\* C3: result order-independence. For fixed per-judge outcomes the mapping
\* evaluate_single_output returns in parallel mode is the one built when the
\* calls complete in the order of submission, whatever order they completed
\* in: same keys, same scores, same success flags.
C3_OrderIndependence ==
    (SingleReturned /\ Mode = "parallel") => evaluations = CollectInOrder(1, EmptyMap)

\* three judges with different outcomes, collected in the reverse of the
\* order of submission
C3_Witness ==
    /\ SingleReturned
    /\ Mode = "parallel"
    /\ judges = JudgeOrder
    /\ collected = <<"glm_judge", "deepseek_judge", "minimax_judge">>
    /\ outcome["minimax_judge"].raised
    /\ ~outcome["glm_judge"].raised
    /\ evaluations["glm_judge"].success

\* C4: no mid-flight cancellation. In a call of evaluate_single_output a
\* judge's call is only ever idle, running or done, a started call never
\* goes back, and the method returns only when the call of every judge has
\* been started and has finished, also when other judges failed.
C4_NoCancellation ==
    [][/\ \A j \in DOMAIN worker : worker[j] \in {"idle", "running", "done"}
       /\ (op \in {"single", "compare"} /\ phase \in {"pending", "dispatched", "collecting"})
            => \A j \in DOMAIN worker :
                 /\ j \in DOMAIN worker'
                 /\ worker[j] = "running" => worker'[j] \in {"running", "done"}
                 /\ worker[j] = "done" => worker'[j] = "done"
       /\ (op \in {"single", "compare"} /\ phase # "aggregated" /\ phase' = "aggregated")
            => \A j \in JudgeSet : j \in DOMAIN worker' /\ worker'[j] = "done"]_vars

\* a call has returned after its first judge failed and the others ran
C4_Witness ==
    /\ SingleReturned
    /\ Len(judges) = 3
    /\ outcome[judges[1]].raised
    /\ ~evaluations[judges[1]].success
    /\ \A j \in JudgeSet : worker[j] = "done"
    /\ evaluations[judges[3]].success

\* the steps the phase of a request may take
PhaseStep ==
    \/ phase = "pending" /\ phase' = "dispatched" /\ judges # <<>>
    \/ phase = "pending" /\ phase' = "aggregated" /\ judges = <<>>
    \/ phase = "dispatched" /\ phase' = "collecting"
    \/ phase = "collecting" /\ phase' = "aggregated"

\* C5: every evaluation request ends aggregated. A request of
\* evaluate_single_output has no failed state, its phase only moves along
\* pending -> dispatched -> collecting -> aggregated (a request with no judge
\* to call returns from pending at once), and, every judge call returning or
\* raising in the end, a pending request is eventually aggregated, whatever
\* judges fail.
C5_EndsAggregated ==
    /\ [](op \in {"single", "compare"}
            => phase \in {"pending", "dispatched", "collecting", "aggregated"})
    /\ [][(op \in {"single", "compare"} /\ phase # phase'
             /\ phase \in {"pending", "dispatched", "collecting"}) => PhaseStep]_vars
    /\ (phase = "pending") ~> (phase = "aggregated")

\* a request is aggregated although every one of three judges failed
C5_Witness ==
    /\ SingleReturned
    /\ Len(judges) = 3
    /\ \A j \in JudgeSet : ~evaluations[j].success
    /\ \E j \in JudgeSet : outcome[j].raised
    /\ \E j \in JudgeSet : ~outcome[j].raised

\* C6: with zero usable judges (evaluation disabled, or no judge created)
\* nothing raises and no judge call is made; evaluate_single_output returns
\* an empty mapping and evaluate_minimax_standard returns empty
\* model_a_scores, model_b_scores, weighted_scores and statistics.
C6_ZeroJudgesEmptyResult ==
    (~enabled \/ judges = <<>>) =>
      /\ phase # "raised"
      /\ future = EmptyMap
      /\ \A j \in DOMAIN worker : worker[j] = "idle"
      /\ (op \in {"single", "compare"} /\ phase = "aggregated") => evaluations = EmptyMap
      /\ (op = "minimax" /\ phase = "aggregated") =>
           /\ ~mm_return.raised
           /\ mm_return.val.model_a_scores = EmptyMap
           /\ mm_return.val.model_b_scores = EmptyMap
           /\ mm_return.val.weighted_scores = EmptyMap
           /\ mm_return.val.statistics = EmptyMap

\* evaluate_minimax_standard has returned in a manager that is enabled and
\* has declared judges, none of which could be created
C6_Witness ==
    /\ enabled
    /\ DOMAIN judges_config = JudgeNames
    /\ judges = <<>>
    /\ op = "minimax"
    /\ phase = "aggregated"
    /\ mm_return.val.error = "Quality evaluation not enabled"

\* C7: sequential mode is equivalent to parallel mode. With any mode other
\* than "parallel" evaluate_single_output returns, for the same judges and
\* outcomes, the mapping the parallel collection builds: same keys, scores,
\* overall scores and success flags.
C7_SequentialEquivalent ==
    (SingleReturned /\ Mode # "parallel") =>
      /\ DOMAIN evaluations = JudgeSet
      /\ \A j \in JudgeSet :
           LET par == CollectInOrder(1, EmptyMap)[j] IN
             /\ evaluations[j].scores = par.scores
             /\ evaluations[j].overall_score = par.overall_score
             /\ evaluations[j].success = par.success

\* a sequential call over three judges of which one failed and one succeeded
C7_Witness ==
    /\ SingleReturned
    /\ Mode \notin {"parallel", "sequential"}
    /\ judges = JudgeOrder
    /\ ~evaluations["minimax_judge"].success
    /\ evaluations["deepseek_judge"].success
    /\ outcome["glm_judge"].raised

\* the three-way score of a candidate with the one missing rater replaced by
\* the mean of the available raters' scores, from the per-judge scores
MeanFilledScore(scores) ==
    LET present == DOMAIN scores
        value == [j \in present |-> NumOf(OverallOr(scores[j], 0))]
        missing == CHOOSE f \in Families : \A j \in present : FamilyOf(j) # f
    IN  Round2(SumOver([j \in present |-> value[j] * MinimaxWeights[FamilyOf(j)]], present)
                 + (SumOver(value, present) * MinimaxWeights[missing])
                     \div Cardinality(present))

\* C8: missing raters are never zero-filled. When evaluate_minimax_standard
\* returns and one of the three raters produced no result, each candidate's
\* weighted score is computed with that rater's score replaced by the mean
\* of the available raters' scores.
C8_MissingRaterMeanFilled ==
    (op = "minimax" /\ phase = "aggregated" /\ judges # <<>>
       /\ Cardinality(DOMAIN mm_return.val.model_a_scores) = 2) =>
      /\ mm_return.val.weighted_scores.model_a_weighted
           = MeanFilledScore(mm_return.val.model_a_scores)
      /\ mm_return.val.weighted_scores.model_b_weighted
           = MeanFilledScore(mm_return.val.model_b_scores)

\* minimax and deepseek scored the candidates, the call of glm raised
C8_Witness ==
    /\ op = "minimax"
    /\ phase = "aggregated"
    /\ judges = JudgeOrder
    /\ outcome["glm_judge"].raised
    /\ DOMAIN mm_return.val.model_a_scores = {"minimax_judge", "deepseek_judge"}
    /\ mm_return.val.weighted_scores.model_a_weighted = 5000

\* C9: parser fallback on embedded JSON. For the reply
\* I think this is {"scores": {"accuracy": {"score": 4}}, "overall_score": 4.0}
\* and the criteria accuracy and clarity, parse_standard does not raise and
\* gives accuracy = 4.0 (the nested score of the embedded object) and
\* clarity = 3.0 (the default of a criterion the object lacks).
C9_EmbeddedJsonFallback ==
    (op = "parsed" /\ parse_in.response = PyStr(EmbeddedReply)
       /\ parse_in.criteria = <<"accuracy", "clarity">>) =>
      /\ ~parse_out.raised
      /\ parse_out.val["scores"]["accuracy"] = JNum(4000)
      /\ parse_out.val["scores"]["clarity"] = JNum(3000)

\* the reply with the embedded object has been parsed
C9_Witness ==
    /\ op = "parsed"
    /\ parse_in.response = PyStr(EmbeddedReply)
    /\ parse_in.criteria = <<"accuracy", "clarity">>
    /\ ~parse_out.raised
    /\ parse_out.val["scores"]["accuracy"] = JNum(DefaultScore)

\* C10: parse_standard never raises. For every reply (empty text, text with
\* no JSON, malformed JSON, JSON whose scores value is not an object, no
\* reply at all) and every criteria list it returns a structure with scores
\* and overall_score.
C10_ParseStandardNeverRaises ==
    op = "parsed" =>
      /\ ~parse_out.raised
      /\ {"scores", "overall_score"} \subseteq DOMAIN parse_out.val

\* parse_standard has raised on a reply that is None
C10_Witness ==
    /\ op = "parsed"
    /\ parse_in.response = PyNone
    /\ parse_out.raised
    /\ parse_out.exc = "TypeError"

\* the reply names both models and holds each required sub-score twice
SubScoresPresent(response) ==
    /\ ~response.none
    /\ \A model \in {"model_a", "model_b"} :
          \E n \in 1..Len(response.s) : response.s[n] = model
    /\ \A n \in 1..Len(required_fields) :
          Cardinality({k \in 1..Len(response.s) : response.s[k] = required_fields[n]}) >= 2

\* C11: parse_minimax never raises, returns a {model_a_score, model_b_score}
\* result whenever the reply holds accuracy_score, completeness_score,
\* logic_score and creativity_score for both model_a and model_b (as plain
\* JSON, as JSON in a code fence, or inside other text), and returns None
\* otherwise.
C11_SubScoresAlwaysLocated ==
    op = "parsed_minimax" =>
      /\ ~parse_out.raised
      /\ SubScoresPresent(parse_in.response) <=> parse_out.val # PyNone

\* the fenced reply with all eight sub-scores has been parsed to None
C11_Witness ==
    /\ op = "parsed_minimax"
    /\ parse_in.response = PyStr(FencedMinimaxReply)
    /\ parse_out = Returned(PyNone)

\* the entry is one the registry can use: enabled, of a supported type, with
\* its API key in the environment and a client that constructs
UsableEntry(entry) ==
    /\ entry.enabled
    /\ entry.type \in {"deepseek", "glm", "minimax"}
    /\ entry.has_key
    /\ entry.base_url # ""
    /\ entry.constructs

WellFormedEntry(entry) ==
    /\ entry.type \in {"deepseek", "glm", "minimax"}
    /\ entry.api_key_env # ""

\* C13: validate_config returns true if and only if the configuration has at
\* least one judge entry that is both enabled and well-formed; a
\* configuration whose only enabled entries are malformed validates as false.
C13_ValidIffEnabledWellFormed ==
    (op = "validated") =>
      /\ ~static_out.raised
      /\ static_out.val =
           (/\ "judges" \in DOMAIN static_in.config
            /\ static_in.config.judges # PyNone
            /\ \E n \in DOMAIN static_in.config.judges :
                  /\ static_in.config.judges[n].enabled
                  /\ WellFormedEntry(static_in.config.judges[n]))

\* a configuration whose only enabled entry is of an unsupported type has
\* been validated as true
C13_Witness ==
    /\ op = "validated"
    /\ static_out = Returned(TRUE)
    /\ DOMAIN static_in.config = {"judges"}
    /\ static_in.config.judges # PyNone
    /\ \A n \in DOMAIN static_in.config.judges :
          static_in.config.judges[n].enabled => ~WellFormedEntry(static_in.config.judges[n])

\* the rubric the specification gives a category, weights in hundredths
RubricWeightsOf(category) ==
    IF category \in DOMAIN CATEGORY_RUBRICS THEN CATEGORY_RUBRICS[category].weights
    ELSE [relevance |-> 40, accuracy |-> 30, clarity |-> 30]

\* C14: calculate_overall_score never fails and equals the sum of
\* scores[c] * weight[c] over exactly the criteria c of the category's
\* rubric that are present in scores, rounded to 2 decimals, with the default
\* rubric {relevance 0.4, accuracy 0.3, clarity 0.3} for a category that is
\* not registered; criteria the rubric does not name do not change the
\* result and criteria absent from scores contribute zero.
C14_RubricWeightedSum ==
    (op = "scored" /\ static_in.method = "ScoringRubric.calculate_overall_score") =>
      LET w == RubricWeightsOf(static_in.category)
          term == [c \in DOMAIN w |->
                     IF c \in DOMAIN static_in.scores
                     THEN static_in.scores[c].n * w[c] ELSE 0]
      IN  /\ ~static_out.raised
          /\ static_out.val = Round2(SumOver(term, DOMAIN w))

\* an overall score has been computed for an unregistered category from
\* scores that lack a rubric criterion and hold one the rubric does not name
C14_Witness ==
    /\ op = "scored"
    /\ static_in.method = "ScoringRubric.calculate_overall_score"
    /\ static_in.category = "uncategorized"
    /\ DOMAIN static_in.scores = {"accuracy", "clarity", "humor"}
    /\ ~static_out.raised
    /\ static_out.val > 0

\* C15: the three-way weighted score only ever uses weights that sum to 1.0:
\* custom weights whose sum differs from 1.0 are rejected (the call raises)
\* or normalized before the weighted sum is formed.
C15_WeightsSumToOne ==
    (op = "scored" /\ static_in.method = "calculate_weighted_score") =>
      \/ static_out.raised
      \/ static_out.val.weights.minimax + static_out.val.weights.deepseek
            + static_out.val.weights.glm = 100

\* a weighted score of 12.0 has been formed of 9, 7 and 8 with the weights
\* 0.5, 0.5 and 0.5
C15_Witness ==
    /\ op = "scored"
    /\ static_in.method = "calculate_weighted_score"
    /\ static_in.weights = [minimax |-> 50, deepseek |-> 50, glm |-> 50]
    /\ <<static_in.minimax_score, static_in.deepseek_score, static_in.glm_score>> = <<9, 7, 8>>
    /\ ~static_out.raised
    /\ static_out.val.weighted_score = 12000

\* C16: with the default weights calculate_weighted_score returns
\* minimax * 0.40 + deepseek * 0.30 + glm * 0.30 rounded to 2 decimals for
\* every triple of scores in 0..10 (9.0, 7.0, 8.0 gives 8.10), whatever
\* calls were made before.
C16_DefaultWeightedScore ==
    (op = "scored" /\ static_in.method = "calculate_weighted_score"
       /\ static_in.weights = PyNone) =>
      /\ ~static_out.raised
      /\ static_out.val.weighted_score =
           4 * 100 * static_in.minimax_score + 3 * 100 * static_in.deepseek_score
             + 3 * 100 * static_in.glm_score
      /\ (<<static_in.minimax_score, static_in.deepseek_score, static_in.glm_score>>
             = <<9, 7, 8>>) => static_out.val.weighted_score = 8100

\* 9.0, 7.0 and 8.0 have been scored 8.10 with the default weights
C16_Witness ==
    /\ op = "scored"
    /\ static_in.method = "calculate_weighted_score"
    /\ static_in.weights = PyNone
    /\ <<static_in.minimax_score, static_in.deepseek_score, static_in.glm_score>> = <<9, 7, 8>>
    /\ static_out.val.weighted_score = 8100

\* C17: MiniMaxScoreCalculator.calculate_overall_score returns
\* sum(score * weight) / sum(weight) rounded to 2 decimals, the sum of the
\* products over the scored dimensions that have a weight and the sum of the
\* weights over all of dimension_weights, and returns 0 without a division
\* fault when the total weight is 0 (empty weights, or scores whose
\* dimensions have no weight).
C17_OverallWeightedRatio ==
    (op = "scored" /\ static_in.method = "MiniMaxScoreCalculator.calculate_overall_score") =>
      LET scores == static_in.dimension_scores
          weights == static_in.dimension_weights
          both == DOMAIN scores \cap DOMAIN weights
          products == SumOver([d \in both |-> scores[d] * weights[d]], both)
          total == SumOver(weights, DOMAIN weights)
      IN  /\ ~static_out.raised
          /\ static_out.val.overall_score =
               IF total = 0 THEN 0 ELSE RoundRatio2(products, total)

\* scores 8 and 6 of which only the first has a weight, and a weight for a
\* dimension without a score: (8 * 0.5) / (0.5 + 0.5) = 4.0
C17_Witness ==
    /\ op = "scored"
    /\ static_in.method = "MiniMaxScoreCalculator.calculate_overall_score"
    /\ static_in.dimension_scores = [reasoning |-> 8000, coding |-> 6000]
    /\ static_in.dimension_weights = [reasoning |-> 50, writing |-> 50]
    /\ static_out.val.overall_score = 4000

\* the two series of a calculate_pearson_correlation call cannot be correlated
Degenerate(scores1, scores2) == Len(scores1) # Len(scores2) \/ Len(scores1) < 2

\* C18: calculate_pearson_correlation, of MiniMaxScoreCalculator and of
\* ScoreNormalizer, does not raise and returns correlation 0 with no p-value
\* whenever the two series have different lengths or fewer than 2 elements.
C18_DegeneratePearson ==
    (/\ op = "scored"
     /\ static_in.method \in {"MiniMaxScoreCalculator.calculate_pearson_correlation",
                              "ScoreNormalizer.calculate_pearson_correlation"}
     /\ Degenerate(static_in.scores1, static_in.scores2)) =>
      /\ static_in.method = "MiniMaxScoreCalculator.calculate_pearson_correlation" =>
           /\ ~static_out.raised
           /\ static_out.val.correlation = Float(0)
           /\ static_out.val.p_value = "None"
      /\ static_in.method = "ScoreNormalizer.calculate_pearson_correlation" =>
           /\ ~static_out.raised
           /\ static_out.val = <<Float(0), "None">>

\* MiniMaxScoreCalculator.calculate_pearson_correlation([7, 8], [7, 8, 9])
\* has raised ValueError
C18_Witness ==
    /\ op = "scored"
    /\ static_in.method = "MiniMaxScoreCalculator.calculate_pearson_correlation"
    /\ static_in.scores1 = <<7, 8>>
    /\ static_in.scores2 = <<7, 8, 9>>
    /\ static_out.raised
    /\ static_out.exc = "ValueError"

\* the raters of ratings whose series can be compared with another rater's
ComparableRaters(ratings) ==
    {r \in DOMAIN ratings :
       \E o \in DOMAIN ratings \ {r} :
         Len(ratings[r]) = Len(ratings[o]) /\ Len(ratings[r]) > 1}

\* C19: calculate_inter_rater_reliability returns the "Insufficient raters"
\* result whenever fewer than two raters have comparable score vectors (equal
\* length, more than one score), also when two or more raters are supplied
\* and no pair is comparable; only otherwise the label is that of the average
\* pairwise correlation: Excellent (>= 0.8), Good (>= 0.6), Fair (>= 0.4) or
\* Poor (< 0.4).
C19_InsufficientComparableRaters ==
    (op = "scored"
       /\ static_in.method = "MiniMaxScoreCalculator.calculate_inter_rater_reliability") =>
      /\ ~static_out.raised
      /\ IF Cardinality(ComparableRaters(static_in.ratings)) < 2
         THEN /\ static_out.val.reliability = "Insufficient raters"
              /\ static_out.val.average_correlation = Float(0)
              /\ static_out.val.correlations = EmptyMap
         ELSE static_out.val.reliability \in {"Excellent", "Good", "Fair", "Poor"}

\* two raters with one score each, as evaluate_minimax_standard supplies
\* them: no pair is comparable and the label is "Poor"
C19_Witness ==
    /\ op = "scored"
    /\ static_in.method = "MiniMaxScoreCalculator.calculate_inter_rater_reliability"
    /\ static_in.ratings = [minimax_judge |-> <<8>>, deepseek_judge |-> <<8>>]
    /\ static_out.val.reliability = "Poor"
    /\ static_out.val.correlations = EmptyMap

\* C20: calculate_confidence_interval, of MiniMaxScoreCalculator and of
\* ScoreNormalizer, degrades to a defined value for n <= 1: it does not
\* raise, no component of the tuple it returns is nan, its margin is 0, and
\* for a single score v the tuple is (v, v, v, 0).
C20_DegenerateInterval ==
    (/\ op = "scored"
     /\ static_in.method \in {"MiniMaxScoreCalculator.calculate_confidence_interval",
                              "ScoreNormalizer.calculate_confidence_interval"}
     /\ Len(static_in.scores) <= 1) =>
      /\ ~static_out.raised
      /\ \A i \in 1..4 : ~static_out.val[i].nan
      /\ static_out.val[4] = Float(0)
      /\ Len(static_in.scores) = 1 =>
           \A i \in 1..3 : static_out.val[i] = Float(1000 * static_in.scores[1])

\* ScoreNormalizer.calculate_confidence_interval([8]) has returned a tuple
\* whose bounds and margin are nan
C20_Witness ==
    /\ op = "scored"
    /\ static_in.method = "ScoreNormalizer.calculate_confidence_interval"
    /\ static_in.scores = <<8>>
    /\ static_out.val = <<Float(8000), NaN, NaN, NaN>>

\* the band of a score in units of 1e-4, every boundary on the lower edge
BandOf(score) ==
    IF score >= 90000 THEN "excellent"
    ELSE IF score >= 75000 THEN "good"
    ELSE IF score >= 60000 THEN "qualified"
    ELSE IF score >= 30000 THEN "unqualified"
    ELSE "critical"

\* the bands from the lowest to the highest
BandRank ==
    [critical |-> 1, unqualified |-> 2, qualified |-> 3, good |-> 4, excellent |-> 5]

\* C21: grade_score is a total, monotone mapping of a score to five bands,
\* every boundary inclusive on the lower edge: >= 9.0 excellent, >= 7.5 good,
\* >= 6.0 qualified, >= 3.0 unqualified, otherwise critical; no lower score
\* gets a higher band; and MiniMaxScoreCalculator.grade_score and
\* ScoreNormalizer.grade_score with the default thresholds return the same
\* band for every score.
C21_GradeBands ==
    (/\ op = "scored"
     /\ static_in.method \in {"MiniMaxScoreCalculator.grade_score",
                              "ScoreNormalizer.grade_score"}
     /\ static_in.method = "ScoreNormalizer.grade_score" =>
          static_in.grade_thresholds = PyNone) =>
      /\ ~static_out.raised
      /\ static_out.val = BandOf(static_in.score)
      /\ static_out.val = MiniMax_grade_score(static_in.score)
      /\ static_out.val = ScoreNormalizer_grade_score(static_in.score, PyNone)
      /\ \A lower \in GradeScores :
           lower <= static_in.score =>
             /\ BandRank[MiniMax_grade_score(lower)] <= BandRank[static_out.val]
             /\ BandRank[ScoreNormalizer_grade_score(lower, PyNone)]
                  <= BandRank[static_out.val]

\* grade_score(8.9999) of MiniMaxScoreCalculator has returned the band below
\* the one of 9.0
C21_Witness ==
    /\ op = "scored"
    /\ static_in.method = "MiniMaxScoreCalculator.grade_score"
    /\ static_in.score = 89999
    /\ static_out.val = "good"
    /\ MiniMax_grade_score(90000) = "excellent"
    /\ ScoreNormalizer_grade_score(29999, PyNone) = "critical"

\* the agreement level of the standard deviation of the overall scores of
\* two or more evaluations: std < 0.5 exactly when
\* n * sum(x^2) - sum(x)^2 < 0.25 * n * (n - 1), the scores in thousandths
LevelOfSpread(evals) ==
    LET Level(n, total, squares) ==
            IF n * squares - total * total < 250000 * n * (n - 1) THEN "high"
            ELSE IF n * squares - total * total < 1000000 * n * (n - 1) THEN "medium"
            ELSE "low"
    IN  Level(Cardinality(DOMAIN evals),
              SumOver([j \in DOMAIN evals |-> evals[j].overall_score],
                      DOMAIN evals),
              SumOver([j \in DOMAIN evals |->
                         evals[j].overall_score * evals[j].overall_score],
                      DOMAIN evals))

\* the comparisons compare_outputs has returned, or the one whose
\* calculate_agreement_metrics has run
Aggregated == op \in {"compared", "measured"}

\* an evaluation of a candidate is started in this step
EvaluationStarts == phase' = "pending" /\ (phase # "pending" \/ request' # request)

WithinCall ==
    /\ op \in {"single", "compare"} /\ op' = op
    /\ request' = request
    /\ phase # "pending" /\ phase' \notin {"pending", "none"}

\* C23: each judge's result is written into the result mapping exactly once
\* per evaluate_single_output call. A step of the call leaves every entry of
\* the mapping as it is and adds at most one entry, the JudgeEvaluation of
\* the judge it is stored under; and when the call returns the mapping holds
\* one entry for every configured judge, under any order of completions.
C23_WrittenExactlyOnce ==
    /\ [][WithinCall =>
            /\ \A j \in DOMAIN evaluations :
                 j \in DOMAIN evaluations' /\ evaluations'[j] = evaluations[j]
            /\ Cardinality(DOMAIN evaluations' \ DOMAIN evaluations) <= 1
            /\ \A j \in DOMAIN evaluations' \ DOMAIN evaluations :
                 /\ evaluations'[j].judge_name = j
                 /\ evaluations'[j] = EvaluationOf(j)]_vars
    /\ [](SingleReturned =>
            /\ DOMAIN evaluations = JudgeSet
            /\ \A j \in JudgeSet : evaluations[j].judge_name = j)

\* a parallel call over three judges has returned after the last submitted
\* judge completed first
C23_Witness ==
    /\ SingleReturned
    /\ Mode = "parallel"
    /\ Len(judges) = 3
    /\ collected[1] = judges[3]
    /\ \A j \in JudgeSet : evaluations[j].judge_name = j

\* C24: one prompt for every judge. In one evaluate_single_output call every
\* judge that has been called was given the same prompt text, whatever the
\* judge's own configuration (its blind_evaluation setting) says: the prompt
\* is built once for the call, not once per judge.
C24_OnePromptForEveryJudge ==
    op = "single" =>
      \A j \in DOMAIN prompts, k \in DOMAIN prompts : prompts[j] = prompts[k]

\* a call has returned in which a judge configured with blind_evaluation
\* false and a judge configured with blind_evaluation true were both called,
\* and the two were given prompts with different model labels
C24_Witness ==
    /\ op = "single" /\ phase = "aggregated"
    /\ DOMAIN prompts = JudgeSet
    /\ \E j \in JudgeSet, k \in JudgeSet :
         /\ ~judges_config[j].blind_evaluation
         /\ judges_config[k].blind_evaluation
         /\ prompts[j].model_label = "this model"
         /\ prompts[k].model_label = "model A"

\* C25: evaluation leaves the registry untouched. No step of
\* evaluate_single_output, compare_outputs or evaluate_minimax_standard,
\* whether judges fail or not, sequential or concurrent, changes the enabled
\* flag, the judges' configuration, the strategy or the set of judges: the
\* judges stay the ones the constructor created, and get_enabled_judges and
\* is_enabled keep their values.
C25_RegistryUntouched ==
    /\ [][/\ UNCHANGED managerVars
           /\ get_enabled_judges' = get_enabled_judges
           /\ is_enabled' = is_enabled]_vars
    /\ [](judges = IF enabled THEN create_all(judges_config) ELSE <<>>)

\* compare_outputs has returned comparisons in which a judge failed and a
\* judge succeeded, and the manager still reports its two or more judges
C25_Witness ==
    /\ op = "compared"
    /\ is_enabled
    /\ Len(get_enabled_judges) >= 2
    /\ get_enabled_judges = create_all(judges_config)
    /\ \E m \in DOMAIN comparisons :
         /\ \E j \in DOMAIN comparisons[m].evaluations :
              ~comparisons[m].evaluations[j].success
         /\ \E j \in DOMAIN comparisons[m].evaluations :
              comparisons[m].evaluations[j].success

\* C26: the overall_score of a successful JudgeEvaluation is the
\* rubric-weighted sum of the parsed per-criterion scores, rounded to 2
\* decimals, never the overall_score that came with the parsed reply (what
\* the judge wrote, or the mean of the text fallback); parsed replies with the
\* same per-criterion scores and different stated overall_score values give
\* the same overall_score.
C26_OverallIsRubricWeightedSum ==
    (op = "scored" /\ static_in.method = "JudgeManager._evaluate_with_judge") =>
      LET parsed == static_in.evaluation_result
          weights == get_rubric(static_in.category).weights
          used == DOMAIN weights \cap DOMAIN parsed.scores
          weighted == Round2(SumOver([c \in used |-> parsed.scores[c].n * weights[c]], used))
          evaluation == static_out.val
      IN  /\ ~static_out.raised
          /\ evaluation.success <=> \A c \in used : IsNumeric(parsed.scores[c])
          /\ evaluation.success =>
                /\ evaluation.scores = parsed.scores
                /\ evaluation.overall_score = weighted
                /\ \A stated \in StatedOverallValues :
                     EvaluationOfParsed(evaluation.judge_name, evaluation.judge_model,
                                        static_in.category, evaluation.model_evaluated,
                                        [parsed EXCEPT !.overall_score = stated]).overall_score
                       = evaluation.overall_score

\* scores 5, 4 and 2 with a stated overall_score of 4.5: the evaluation has
\* 5 * 0.4 + 4 * 0.3 + 2 * 0.3 = 3.8
C26_Witness ==
    /\ op = "scored"
    /\ static_in.method = "JudgeManager._evaluate_with_judge"
    /\ static_in.evaluation_result.scores =
         [accuracy |-> JNum(5000), conciseness |-> JNum(4000), clarity |-> JNum(2000)]
    /\ static_in.evaluation_result.overall_score = JNum(4500)
    /\ static_out.val.success
    /\ static_out.val.overall_score = 3800

\* the call returned from the JSON path: the try block of parse_standard
\* returned without taking the result of the text fallback
OnJsonPath ==
    ~ParseStandardTry(parse_in.response, parse_in.criteria,
                      Raised("Fallback", "text fallback")).raised

\* the reply names the criterion nowhere
NotScored(criterion) ==
    \A i \in 1..Len(parse_in.response.s) :
       Lower(parse_in.response.s[i]) # Lower(criterion)

MinimaxAnswered(j) ==
    /\ ~outcome[j].raised
    /\ ~parse_minimax(outcome[j].val).raised
    /\ Truthy(parse_minimax(outcome[j].val).val)

\* a result whose "model_a" or "model_b" is a number, for which line 533
\* and its like have no .get
ScalarScored(j) == MinimaxAnswered(j) /\ outcome[j].val = PyStr(ScalarReply)

\* evaluate_minimax_standard has called its judges and is returning or raising
MinimaxEnded == op = "minimax" /\ phase \in {"aggregated", "raised"} /\ judges # <<>>

SuccessfulScores(judge_name, Keep(_)) ==
    LET kept == SelectSeq(collector_results,
                          LAMBDA r : /\ Keep(r)
                                     /\ judge_name \in DOMAIN r.quality_evaluations
                                     /\ r.quality_evaluations[judge_name].success)
    IN  [k \in DOMAIN kept |-> kept[k].quality_evaluations[judge_name].overall_score]

\* the entry counts and averages exactly the given scores
StatsOf(stats, scores) ==
    /\ stats.scores = scores
    /\ stats.total_evaluations = Len(stats.scores)
    /\ stats.avg_score = RoundRatio2(SumOver(scores, DOMAIN scores), Len(scores))

\* C29: get_quality_statistics counts and averages the evaluations with
\* success = true only. After any sequence of add_result calls, by_judge,
\* by_model and by_category hold an entry exactly where a successful
\* evaluation exists, with the scores of the successful evaluations and
\* nothing of the failed ones; overall.total_evaluations equals
\* overall.successful_evaluations, the number of successful evaluations; and
\* every total_evaluations counter is the length of its scores list.
C29_SuccessfulEvaluationsOnly ==
    op = "counted" =>
      LET ByJudge(j) == SuccessfulScores(j, LAMBDA r : TRUE)
          ByModel(m, j) == SuccessfulScores(j, LAMBDA r : r.model_name = m)
          ByCategory(c, m, j) ==
              SuccessfulScores(j, LAMBDA r : r.model_name = m /\ r.test_category = c)
          Models == {collector_results[k].model_name : k \in DOMAIN collector_results}
          TestCategories == {collector_results[k].test_category : k \in DOMAIN collector_results}
      IN  /\ DOMAIN quality_stats.by_judge = {j \in JudgeNames : ByJudge(j) # <<>>}
          /\ \A j \in DOMAIN quality_stats.by_judge :
               StatsOf(quality_stats.by_judge[j], ByJudge(j))
          /\ DOMAIN quality_stats.by_model =
               {m \in Models : \E j \in JudgeNames : ByModel(m, j) # <<>>}
          /\ \A m \in DOMAIN quality_stats.by_model :
               /\ DOMAIN quality_stats.by_model[m] = {j \in JudgeNames : ByModel(m, j) # <<>>}
               /\ \A j \in DOMAIN quality_stats.by_model[m] :
                    StatsOf(quality_stats.by_model[m][j], ByModel(m, j))
          /\ DOMAIN quality_stats.by_category =
               {c \in TestCategories :
                  \E m \in Models, j \in JudgeNames : ByCategory(c, m, j) # <<>>}
          /\ \A c \in DOMAIN quality_stats.by_category :
               /\ DOMAIN quality_stats.by_category[c] =
                    {m \in Models : \E j \in JudgeNames : ByCategory(c, m, j) # <<>>}
               /\ \A m \in DOMAIN quality_stats.by_category[c] :
                    /\ DOMAIN quality_stats.by_category[c][m] =
                         {j \in JudgeNames : ByCategory(c, m, j) # <<>>}
                    /\ \A j \in DOMAIN quality_stats.by_category[c][m] :
                         StatsOf(quality_stats.by_category[c][m][j], ByCategory(c, m, j))
          /\ quality_stats.overall.total_evaluations =
               quality_stats.overall.successful_evaluations
          /\ quality_stats.overall.total_evaluations =
               SumOver([j \in JudgeNames |-> Len(ByJudge(j))], JudgeNames)

\* two results were added, one in which deepseek_judge failed and glm_judge
\* succeeded and one in which deepseek_judge succeeded: two evaluations are
\* counted, one for each judge
C29_Witness ==
    /\ op = "counted"
    /\ Len(collector_results) = 2
    /\ DOMAIN collector_results[1].quality_evaluations = {"deepseek_judge", "glm_judge"}
    /\ ~collector_results[1].quality_evaluations["deepseek_judge"].success
    /\ collector_results[1].quality_evaluations["glm_judge"].success
    /\ DOMAIN collector_results[2].quality_evaluations = {"deepseek_judge"}
    /\ collector_results[2].quality_evaluations["deepseek_judge"].success
    /\ quality_stats.overall.total_evaluations = 2
    /\ quality_stats.by_judge["deepseek_judge"].total_evaluations = 1
    /\ quality_stats.by_judge["glm_judge"].total_evaluations = 1

\* C30: compare_outputs degrades without raising when few judges answer. A
\* candidate whose evaluation mapping is empty has no entry in the returned
\* comparisons, a candidate with evaluations has one, and an entry with
\* exactly one evaluation keeps score_variance 0.0, score_std 0.0 and the
\* empty agreement_level: a single judge gives no high / medium / low label.
C30_FewJudgesDegrade ==
    /\ [](op = "compare" => phase # "raised")
    /\ [][op' = "compared" =>
            /\ "model_a" \in DOMAIN comparisons' <=> evals_a # EmptyMap
            /\ "model_b" \in DOMAIN comparisons' <=> evaluations # EmptyMap
            /\ "model_a" \in DOMAIN comparisons' =>
                  comparisons'["model_a"].evaluations = evals_a
            /\ "model_b" \in DOMAIN comparisons' =>
                  comparisons'["model_b"].evaluations = evaluations]_vars
    /\ [](Aggregated =>
            \A m \in DOMAIN comparisons :
              Cardinality(DOMAIN comparisons[m].evaluations) = 1 =>
                /\ comparisons[m].score_variance = 0
                /\ comparisons[m].score_std = 0
                /\ comparisons[m].agreement_level = "")

\* compare_outputs has returned with one judge: each candidate has an entry
\* with its single evaluation and no agreement level
C30_Witness ==
    /\ op = "compared"
    /\ Len(judges) = 1
    /\ DOMAIN comparisons = {"model_a", "model_b"}
    /\ \A m \in DOMAIN comparisons :
         /\ Cardinality(DOMAIN comparisons[m].evaluations) = 1
         /\ comparisons[m].score_variance = 0
         /\ comparisons[m].score_std = 0
         /\ comparisons[m].agreement_level = ""

=============================================================================
